---------------------------- MODULE Spec2Model ----------------------------
(***************************************************************************)
(* Frame-accurate media assembly layer of straightslop:                    *)
(*   - combine_clips_with_fades   (src/combine_with_fades.py)              *)
(*   - add_tiktok_captions        (src/captions.py)                        *)
(*   - create_kenburns_with_ffmpeg (src/ffmpeg_helpers.py) and             *)
(*     ken_burns_effect_ffmpeg     (src/makeAnimation.py)                  *)
(* Each component is a sequential process; its variables are parked at an  *)
(* idle value in the specifications of the other components.               *)
(***************************************************************************)
EXTENDS Integers, Sequences, FiniteSets, TLC

(***************************************************************************)
(* Bounds of the model.                                                    *)
(***************************************************************************)
MaxClips == 3

MaxFrames == 2

MaxOverride == 2

MaxProbeFailures == 1

MaxWords == 6

MaxTerminals == 1

\* Items of one section
MaxItems == 3

\* Threads calling the Gemini helpers at once
MaxThreads == 3

\* Calls of the Gemini helpers the main thread makes
MaxCalls == 3

\* Sections of a plan
MaxSections == 3

MaxKbFrames == 3

(***************************************************************************)
(* Generic helpers (Python built-ins used by the code).                    *)
(***************************************************************************)
Max(a, b) == IF a >= b THEN a ELSE b

Min(a, b) == IF a <= b THEN a ELSE b

\* int(round(num / den)) for num >= 0, den > 0: Python 3 rounds half to even.
RoundDiv(num, den) ==
    LET q == num \div den
        r == num % den
    IN  IF 2 * r < den THEN q
        ELSE IF 2 * r > den THEN q + 1
        ELSE IF q % 2 = 0 THEN q ELSE q + 1

RECURSIVE SumSeq(_)
SumSeq(s) == IF s = <<>> THEN 0 ELSE Head(s) + SumSeq(Tail(s))

(***************************************************************************)
(* combine_clips_with_fades                                                *)
(***************************************************************************)
VARIABLES
    video_frames,               \* true frame count of each input clip (video_paths)
    fade_ms,                    \* fade_seconds, in milliseconds
    pair_fade_frames_override,  \* <<>> for None, <<list>> when given
    nb_frames,                  \* result of _probe_nb_frames per clip
    durations,                  \* result of _probe_duration_seconds per clip, microseconds
    pair_fade_frames,           \* fade length per adjacent pair
    segment_paths,              \* segments rendered so far, in list order
    cc_i,                       \* loop index i of the pair loop (0-based)
    cc_pc,                      \* position inside combine_clips_with_fades
    output,                     \* what was written to output_path
    temp_files,                 \* files present in temp_dir, by <<kind, clip>>
    list_path,                  \* the concat list file: "none", "exists", "deleted"
    runs                        \* ffmpeg invocations so far: [cmd, rc]

combineVars == <<video_frames, fade_ms, pair_fade_frames_override, nb_frames,
                 durations, pair_fade_frames, segment_paths, cc_i, cc_pc, output,
                 temp_files, list_path, runs>>

\* State of add_tiktok_captions
VARIABLES
    words,                \* result of _transcribe_words
    total_dur,            \* target_duration
    sentence_boundaries,  \* list of <<start_idx, end_idx_exclusive>>
    cap_k,                \* index of the sentence the for loop is at (0-based)
    cap_idx,              \* idx of the while loop
    win_start,
    win_end,
    cap_wi,               \* wi of the inner for loop
    prev_end,
    clips,                \* caption clips appended so far
    cap_pc,               \* position inside add_tiktok_captions
    cap_opened,           \* VideoFileClip(video_path) was opened
    cap_written,          \* write_videofile(target_path) ran
    cap_result,           \* what the function returned: "video_path" or "target_path"
    cap_clamped,          \* some window's end_time was below its start_time
    cap_handoff           \* next_start of the latest word, before the caps

captionVars == <<words, total_dur, sentence_boundaries, cap_k, cap_idx,
                 win_start, win_end, cap_wi, prev_end, clips, cap_pc,
                 cap_opened, cap_written, cap_result, cap_clamped, cap_handoff>>

\* State of the Ken Burns planners
VARIABLES
    kb_fn,          \* which function is running
    img,            \* <<img_w, img_h>> of the source image
    target_size,    \* <<target_w, target_h>>
    total_frames,
    zoom_start,
    zoom_end,
    base_size,      \* <<iw, ih>> of the pre-scaled plane zoompan works on
    max_pan,        \* <<max_pan_x, max_pan_y>>
    start_off,      \* <<start_x, start_y>>
    end_off,        \* <<end_x, end_y>>
    tries,
    pan_dir,        \* <<cos(pan_angle), sin(pan_angle)>> in fifths
    on,             \* frame index the renderer evaluates the expressions at
    kb_attempts,    \* number of ffmpeg renders started
    kb_pc

kenVars == <<kb_fn, img, target_size, total_frames, zoom_start, zoom_end,
             base_size, max_pan, start_off, end_off, tries, pan_dir, on,
             kb_attempts, kb_pc>>

\* State of combine_two_clips_with_fades_av
VARIABLES
    av_clips,       \* <<A, B>>, each [video |-> ms, audio |-> ms, probe |-> "ok"/"fail"/"zero"]
    av_fade_ms,     \* fade_seconds, in milliseconds
    av_filter,      \* what the filter graph asks for: the video and the audio transition
    av_pc           \* position inside combine_two_clips_with_fades_av

avVars == <<av_clips, av_fade_ms, av_filter, av_pc>>

\* State of publish_simple / publish_short (src/upload_video.py)
VARIABLES
    up_fn,          \* which function is running
    up_retry,       \* retry counter of resumable_upload
    up_privacy,     \* privacyStatus of the video on YouTube ("none": no video)
    up_thumb,       \* outcome of the thumbnail step
    up_clock,       \* seconds since poll_and_publish started
    up_elapsed,     \* elapsed, as measured at the start of the latest poll
    up_item,        \* the item of the latest videos.list response
    up_public,      \* number of videos.update requests asking for "public"
    up_exit,        \* how the call ended
    up_pc           \* position inside the call

uploadVars == <<up_fn, up_retry, up_privacy, up_thumb, up_clock, up_elapsed,
                up_item, up_public, up_exit, up_pc>>

\* State of the per-section planning of index.main and of makeShort, up to
\* their call of combine_clips_with_fades
VARIABLES
    pl_fn,          \* which pipeline is running
    pl_starts,      \* starts of the items' narration, in milliseconds
    pl_end,         \* ends[-1], in milliseconds
    pl_boundaries,  \* boundaries, in frames
    pl_s_spans,     \* planned spans per item (makeShort: s_spans)
    pl_frames,      \* frames_per_item
    pl_pc           \* position inside the pipeline

planVars == <<pl_fn, pl_starts, pl_end, pl_boundaries, pl_s_spans, pl_frames,
              pl_pc>>

\* State of the Gemini helpers (src/gemini.py) under concurrent callers
VARIABLES
    gm_th,          \* per calling thread: function, position and locals
    gm_CLIENT,      \* the module global _CLIENT (0: None)
    gm_constructed, \* number of genai.Client instances constructed
    gm_exists,      \* per cache key: the file geminicache/<key>.json exists
    gm_files,       \* per cache key: the chunks of the file
    gm_saved        \* per cache key: the responses handed to _save_cache

geminiVars == <<gm_th, gm_CLIENT, gm_constructed, gm_exists, gm_files, gm_saved>>

\* State of getPlan's thread pool (src/getPlan.py)
VARIABLES
    gp_n,           \* len(sections)
    gp_max_workers, \* MAX_WORKERS of this run
    gp_fut,         \* per section index: state of its future
    gp_completed,   \* section indices in the order their futures completed
    gp_taken,       \* number of futures as_completed has yielded
    gp_results,     \* the dict results, as a set of <<key, value>> pairs
    gp_ret,         \* the value getPlan returns
    gp_pc           \* position of the calling thread

poolVars == <<gp_n, gp_max_workers, gp_fut, gp_completed, gp_taken, gp_results,
              gp_ret, gp_pc>>

\* The variables each component leaves alone
notCombineVars == <<captionVars, kenVars, avVars, uploadVars,
                  planVars,
                  geminiVars,
                  poolVars>>

notCaptionVars == <<combineVars, kenVars, avVars, uploadVars,
                  planVars,
                  geminiVars,
                  poolVars>>

notKenVars == <<combineVars, captionVars, avVars, uploadVars,
                  planVars,
                  geminiVars,
                  poolVars>>

notAvVars == <<combineVars, captionVars, kenVars, uploadVars,
                  planVars,
                  geminiVars,
                  poolVars>>

notUploadVars == <<combineVars, captionVars, kenVars, avVars,
                  planVars,
                  geminiVars,
                  poolVars>>

notPlanVars == <<combineVars, captionVars, kenVars, avVars, uploadVars,
                  geminiVars,
                  poolVars>>

notPoolVars ==
    <<combineVars,
      captionVars,
      kenVars,
      avVars,
      uploadVars,
      planVars,
      geminiVars>>

notGeminiVars ==
    <<combineVars,
      captionVars,
      kenVars,
      avVars,
      uploadVars,
      planVars,
      poolVars>>

\* fps parameter (default value, and the value every caller passes).
Fps == 60

\* fade_seconds values offered to the function, in milliseconds.
FadeMsVals == {0 - 17, 0, 17, 33, 500}

\* The scenario of the specification: clips of 120, 90 and 150 frames.
ScenarioClips == <<120, 90, 150>>

ClipLists ==
    (UNION {[1..n -> 1..MaxFrames] : n \in 0..MaxClips}) \cup {ScenarioClips}

OverrideLists ==
    UNION {[1..n -> 0..MaxOverride] : n \in 1..(MaxClips - 1)}

\* ffprobe's format=duration of a CFR clip of n frames, in microseconds.
TrueDuration(n) == (n * 1000000) \div Fps

\* The frame count the planner works with:
\*   nb_frames[i] if nb_frames[i] > 0 else int(round(durations[i] * fps))
EffFrames(nb, dur) == IF nb > 0 THEN nb ELSE RoundDiv(dur * Fps, 1000000)

\* requested_fade_frames = max(1, int(round(fade_seconds * fps)))
RequestedFadeFrames(ms) == Max(1, RoundDiv(ms * Fps, 1000))

\* f_frames = max(1, min(requested_fade_frames, ai, bi))
ComputedFade(req, ai, bi) == Max(1, Min(req, Min(ai, bi)))

\* [max(1, int(v)) for v in pair_fade_frames_override]
OverrideFade(v) == Max(1, v)

\* The override is used only when given with exactly len(video_paths) - 1 entries.
UseOverride(ov, n) == ov # <<>> /\ Len(ov[1]) = Max(0, n - 1)

PairFades(ov, ms, nb, dur) ==
    LET n == Len(nb) IN
    IF UseOverride(ov, n)
    THEN [k \in 1..(n - 1) |-> OverrideFade(ov[1][k])]
    ELSE [k \in 1..(n - 1) |->
            ComputedFade(RequestedFadeFrames(ms),
                         EffFrames(nb[k], dur[k]),
                         EffFrames(nb[k + 1], dur[k + 1]))]

\* pre_frames = max(0, n0 - f0_frames)
PreFrames(n0, f0) == Max(0, n0 - f0)

\* mid_frames = max(0, b_n - f_prev_frames - f_next_frames)
MidFrames(b_n, f_prev, f_next) == Max(0, b_n - f_prev - f_next)

\* start_mid_frame = max(0, f_prev_frames)
MidStart(f_prev) == Max(0, f_prev)

\* A post segment that keeps the frames already used by the transition
PostFramesKeepFade(n_last, f_last) == Max(0, n_last)

\* post_frames = max(0, n_last - f_last_frames)
PostFrames(n_last, f_last) == Max(0, n_last - f_last)

\* start_frame of the post segment
PostStart(f_last) == f_last

\* The encoder options of _cut_encode_segment_by_frames
CutEncoding(fps) ==
    [codec |-> "libx264", preset |-> "ultrafast", crf |-> "20",
     profile |-> "baseline", level |-> "4.2", fps_mode |-> "cfr", r |-> fps,
     pix_fmt |-> "yuv420p", movflags |-> "+faststart",
     video_track_timescale |-> "15360", audio |-> "an"]

\* A crossfade encoder left at the encoder's default profile and level
CrossfadeEncodingDefaults(fps) ==
    [codec |-> "libx264", preset |-> "ultrafast", crf |-> "20",
     profile |-> "high", level |-> "auto", fps_mode |-> "cfr", r |-> fps,
     pix_fmt |-> "yuv420p", movflags |-> "+faststart",
     video_track_timescale |-> "15360", audio |-> "an"]

\* The encoder options of _create_crossfade_segment
CrossfadeEncoding(fps) ==
    [codec |-> "libx264", preset |-> "ultrafast", crf |-> "20",
     profile |-> "baseline", level |-> "4.2", fps_mode |-> "cfr", r |-> fps,
     pix_fmt |-> "yuv420p", movflags |-> "+faststart",
     video_track_timescale |-> "15360", audio |-> "an"]

\* -c copy of an input clip: the file keeps whatever encoding the clip has
SourceEncoding == [codec |-> "copy"]

\* _cut_encode_segment_by_frames: select='between(n,start,end)', -frames:v max(1,num)
CutSegment(src, start_frame, num_frames) ==
    [kind |-> "cut", src |-> src,
     start_frame |-> start_frame,
     end_frame |-> start_frame + Max(0, num_frames - 1),
     end_b_frame |-> 0 - 1,
     num_frames |-> Max(1, num_frames),
     enc |-> CutEncoding(Fps)]

\* _create_crossfade_segment: tail of A between(n,start_a,end_a), head of B
\* between(n,0,end_b), xfade at offset 0 lasting max(1,fade_frames)/fps.
CrossfadeSegment(i, a_nb_frames, fade_frames) ==
    [kind |-> "xfade", src |-> i,
     start_frame |-> Max(0, a_nb_frames - fade_frames),
     end_frame |-> Max(0, a_nb_frames - 1),
     end_b_frame |-> Max(0, fade_frames - 1),
     num_frames |-> Max(1, fade_frames),
     enc |-> CrossfadeEncoding(Fps)]

\* ffmpeg -i video_paths[0] -c copy output_path
CopyFirst(frames) ==
    <<[kind |-> "copy", src |-> 0, start_frame |-> 0,
       end_frame |-> frames[1] - 1, end_b_frame |-> 0 - 1,
       num_frames |-> frames[1], enc |-> SourceEncoding]>>

NClips == Len(video_frames)

\* n_k of clip k (0-based), as the planner sees it
N_(k) == EffFrames(nb_frames[k + 1], durations[k + 1])

\* f_k of pair (k, k+1), 0-based
F_(k) == pair_fade_frames[k + 1]

CombineInit ==
    /\ video_frames \in ClipLists
    /\ fade_ms \in FadeMsVals
    /\ pair_fade_frames_override \in {<<>>} \cup {<<ov>> : ov \in OverrideLists}
    /\ nb_frames = <<>>
    /\ durations = <<>>
    /\ pair_fade_frames = <<>>
    /\ segment_paths = <<>>
    /\ cc_i = 0
    /\ cc_pc = "start"
    /\ output = <<>>
    /\ temp_files = {}
    /\ list_path = "none"
    /\ runs = <<>>

CombineIdle ==
    /\ video_frames = <<>>
    /\ fade_ms = 0
    /\ pair_fade_frames_override = <<>>
    /\ nb_frames = <<>>
    /\ durations = <<>>
    /\ pair_fade_frames = <<>>
    /\ segment_paths = <<>>
    /\ cc_i = 0
    /\ cc_pc = "idle"
    /\ output = <<>>
    /\ temp_files = {}
    /\ list_path = "none"
    /\ runs = <<>>

\* Exit statuses of an ffmpeg run
ReturnCodes == {0, 1}

\* subprocess.run(cmd) without check: the exit status is ignored
UncheckedRun(rc) == "ok"

\* subprocess.run(cmd, check=True): a non-zero exit status raises
CheckedRun(rc) == IF rc = 0 THEN "ok" ELSE "CalledProcessError"

\* A temporary directory that is left behind with its files
ExitTempDirKeep(files) == files

\* Leaving `with tempfile.TemporaryDirectory() as temp_dir` removes the
\* directory and every file in it, on return and on exception alike
ExitTempDir(files) == {}

\* finally: os.unlink(list_path)
Unlink(f) == "deleted"

\* seg_pre_000.mp4, seg_xfade_{i}.mp4, seg_mid_{j}.mp4, seg_post_{N-1}.mp4
SegName(seg) == <<seg.kind, seg.src>>

\* One segment render with check=True: the segment joins segment_paths, or
\* the exception leaves the with-block and the function
Render(seg, rc, next_pc) ==
    /\ runs' = Append(runs, [cmd |-> seg.kind, rc |-> rc])
    /\ IF CheckedRun(rc) = "ok"
       THEN /\ segment_paths' = Append(segment_paths, seg)
            /\ temp_files' = temp_files \cup {SegName(seg)}
            /\ cc_pc' = next_pc
       ELSE /\ segment_paths' = segment_paths
            /\ temp_files' = ExitTempDir(temp_files \cup {SegName(seg)})
            /\ cc_pc' = "error"

\* The `if ..._frames > 0` guard is false: nothing is rendered
NoRender(next_pc) ==
    /\ cc_pc' = next_pc
    /\ UNCHANGED <<segment_paths, temp_files, runs>>

\* if not video_paths: raise ValueError
RaiseEmpty ==
    /\ cc_pc = "start"
    /\ NClips = 0
    /\ cc_pc' = "error"
    /\ UNCHANGED <<video_frames, fade_ms, pair_fade_frames_override, nb_frames,
                   durations, pair_fade_frames, segment_paths, cc_i, output,
                   temp_files, list_path, runs>>
    /\ UNCHANGED notCombineVars

\* Fast path: len(video_paths) == 1 or fade_seconds <= 0
Bypass ==
    /\ cc_pc = "start"
    /\ NClips >= 1
    /\ (NClips = 1 \/ fade_ms <= 0)
    /\ \E rc \in ReturnCodes :
        /\ runs' = Append(runs, [cmd |-> "copy", rc |-> rc])
        /\ IF CheckedRun(rc) = "ok"
           THEN /\ output' = CopyFirst(video_frames)
                /\ cc_pc' = "done"
           ELSE /\ output' = output
                /\ cc_pc' = "error"
    /\ UNCHANGED <<video_frames, fade_ms, pair_fade_frames_override, nb_frames,
                   durations, pair_fade_frames, segment_paths, cc_i,
                   temp_files, list_path>>
    /\ UNCHANGED notCombineVars

\* Outcomes of probing: at most MaxProbeFailures clips have a failing probe.
\* A failing _probe_nb_frames returns 0, a failing _probe_duration_seconds 0.0.
ProbeOutcomes(frames) ==
    {p \in [1..Len(frames) -> {"ok", "noframes", "none"}] :
        Cardinality({k \in 1..Len(frames) : p[k] # "ok"}) <= MaxProbeFailures}

\* Probe durations and frames, then compute the pair-wise fade frames.
Probe ==
    /\ cc_pc = "start"
    /\ NClips >= 2
    /\ fade_ms > 0
    /\ \E p \in ProbeOutcomes(video_frames) :
        LET nb  == [k \in 1..NClips |-> IF p[k] = "ok" THEN video_frames[k] ELSE 0]
            dur == [k \in 1..NClips |->
                      IF p[k] = "none" THEN 0 ELSE TrueDuration(video_frames[k])]
        IN  /\ nb_frames' = nb
            /\ durations' = dur
            /\ pair_fade_frames' = PairFades(pair_fade_frames_override, fade_ms, nb, dur)
    /\ cc_pc' = "pre"
    /\ UNCHANGED <<video_frames, fade_ms, pair_fade_frames_override,
                   segment_paths, cc_i, output, temp_files, list_path, runs>>
    /\ UNCHANGED notCombineVars

\* Pre of first clip frames
CutPre ==
    /\ cc_pc = "pre"
    /\ LET pre_frames == PreFrames(N_(0), F_(0)) IN
        IF pre_frames > 0
        THEN \E rc \in ReturnCodes : Render(CutSegment(0, 0, pre_frames), rc, "xfade")
        ELSE NoRender("xfade")
    /\ cc_i' = 0
    /\ UNCHANGED <<video_frames, fade_ms, pair_fade_frames_override, nb_frames,
                   durations, pair_fade_frames, output, list_path>>
    /\ UNCHANGED notCombineVars

\* Loop body, first half: the crossfade of pair (i, i+1)
Crossfade ==
    /\ cc_pc = "xfade"
    /\ cc_i < NClips - 1
    /\ IF F_(cc_i) > 0
       THEN \E rc \in ReturnCodes :
                Render(CrossfadeSegment(cc_i, N_(cc_i), F_(cc_i)), rc, "mid")
       ELSE NoRender("mid")
    /\ UNCHANGED <<video_frames, fade_ms, pair_fade_frames_override, nb_frames,
                   durations, pair_fade_frames, cc_i, output, list_path>>
    /\ UNCHANGED notCombineVars

\* Loop body, second half: mid of the next clip if it is interior
CutMid ==
    /\ cc_pc = "mid"
    /\ LET j == cc_i + 1
           mid_frames == MidFrames(N_(j), F_(cc_i), F_(cc_i + 1))
           next_pc == IF cc_i + 1 < NClips - 1 THEN "xfade" ELSE "post"
       IN  IF 0 < j /\ j < NClips - 1 /\ mid_frames > 0
           THEN \E rc \in ReturnCodes :
                    Render(CutSegment(j, MidStart(F_(cc_i)), mid_frames), rc, next_pc)
           ELSE NoRender(next_pc)
    /\ cc_i' = cc_i + 1
    /\ UNCHANGED <<video_frames, fade_ms, pair_fade_frames_override, nb_frames,
                   durations, pair_fade_frames, output, list_path>>
    /\ UNCHANGED notCombineVars

\* Post of last clip frames
CutPost ==
    /\ cc_pc = "post"
    /\ LET f_last == F_(NClips - 2)
           post_frames == PostFrames(N_(NClips - 1), f_last)
       IN  IF post_frames > 0
           THEN \E rc \in ReturnCodes :
                    Render(CutSegment(NClips - 1, PostStart(f_last), post_frames),
                           rc, "concat")
           ELSE NoRender("concat")
    /\ UNCHANGED <<video_frames, fade_ms, pair_fade_frames_override, nb_frames,
                   durations, pair_fade_frames, cc_i, output, list_path>>
    /\ UNCHANGED notCombineVars

\* `if not segment_paths`: copy the first clip and return; otherwise write
\* the concat list file (NamedTemporaryFile, delete=False)
WriteList ==
    /\ cc_pc = "concat"
    /\ IF segment_paths = <<>>
       THEN \E rc \in ReturnCodes :
               /\ runs' = Append(runs, [cmd |-> "copy", rc |-> rc])
               /\ output' = IF CheckedRun(rc) = "ok"
                            THEN CopyFirst(video_frames) ELSE output
               /\ cc_pc' = IF CheckedRun(rc) = "ok" THEN "done" ELSE "error"
               /\ temp_files' = ExitTempDir(temp_files)
               /\ list_path' = list_path
       ELSE /\ list_path' = "exists"
            /\ cc_pc' = "concat_run"
            /\ UNCHANGED <<output, temp_files, runs>>
    /\ UNCHANGED <<video_frames, fade_ms, pair_fade_frames_override, nb_frames,
                   durations, pair_fade_frames, segment_paths, cc_i>>
    /\ UNCHANGED notCombineVars

\* Concat all segments with stream copy; the finally clause and the end of
\* the with-block run whether ffmpeg succeeded or not
Concat ==
    /\ cc_pc = "concat_run"
    /\ \E rc \in ReturnCodes :
        /\ runs' = Append(runs, [cmd |-> "concat", rc |-> rc])
        /\ output' = IF CheckedRun(rc) = "ok" THEN segment_paths ELSE output
        /\ cc_pc' = IF CheckedRun(rc) = "ok" THEN "done" ELSE "error"
    /\ list_path' = Unlink(list_path)
    /\ temp_files' = ExitTempDir(temp_files)
    /\ UNCHANGED <<video_frames, fade_ms, pair_fade_frames_override, nb_frames,
                   durations, pair_fade_frames, segment_paths, cc_i>>
    /\ UNCHANGED notCombineVars

(***************************************************************************)
(* add_tiktok_captions                                                     *)
(* Times are in milliseconds.  A word is [text, start, end]; its text is a *)
(* sequence of characters.                                                 *)
(***************************************************************************)
CAPTION_WINDOW_SIZE == 5

CAPTION_PRE_ROLL_MS == 20

CAPTION_POST_ROLL_MS == 100

\* window_size = max(1, int(CAPTION_WINDOW_SIZE))
window_size == Max(1, CAPTION_WINDOW_SIZE)

\* terminal_chars = set([".", "!", "?", "<the three characters of a mis-decoded ellipsis>"])
terminal_chars == {<<".">>, <<"!">>, <<"?">>, <<"a_circ", "euro", "brvbar">>}

\* Python's `ch in wtxt` on strings: ch occurs as a substring of wtxt
Contains(wtxt, ch) ==
    \E k \in 0..(Len(wtxt) - Len(ch)) : SubSeq(wtxt, k + 1, k + Len(ch)) = ch

\* ends_sentence = any(ch in wtxt for ch in terminal_chars)
ends_sentence(wtxt) == \E ch \in terminal_chars : Contains(wtxt, ch)

\* Transcribed start of the first word, gap between consecutive starts and
\* length of a word, as offered to the function.
FirstStarts == {0, 500}

Gaps == {0, 300, 2000}

WordLen == 200

\* Distance from the last word's end to the end of the narration.
TotalSlacks == {50, 1000}

PlainText == <<"h", "i">>

TerminalText == <<"h", "i", ".">>

RECURSIVE StartOf(_, _, _)
StartOf(first, gaps, k) ==
    IF k = 1 THEN first ELSE StartOf(first, gaps, k - 1) + gaps[k - 1]

BuildWords(n, first, gaps, terms) ==
    [k \in 1..n |->
        [text  |-> IF k \in terms THEN TerminalText ELSE PlainText,
         start |-> StartOf(first, gaps, k),
         end   |-> StartOf(first, gaps, k) + WordLen]]

\* The scenario of the specification: one sentence of seven words.
ScenarioWords == BuildWords(7, 0, [k \in 1..6 |-> 300], {7})

\* A transcription whose third word starts before the second one (starts at
\* 0, 400 and 300 ms): word timestamps as the recogniser returns them are not
\* checked for order.
OverlapWords == BuildWords(3, 0, <<400, 0 - 100>>, {3})

\* A narration that ends before the last transcribed words (total duration
\* 350 ms, words up to 600 ms)
EarlySlacks == {0 - 250}

\* Split into sentences by terminal punctuation on words (the whole loop,
\* with i 0-based): returns the list of boundaries.
RECURSIVE SplitFrom(_, _, _, _)
SplitFrom(ws, i, s_start, acc) ==
    LET n == Len(ws) IN
    IF i >= n
    THEN IF s_start < n THEN Append(acc, <<s_start, n>>) ELSE acc
    ELSE LET is_last == (i = n - 1)
             end_idx == i + 1
         IN  IF ends_sentence(ws[i + 1].text) \/ is_last
             THEN SplitFrom(ws, i + 1, end_idx,
                            IF end_idx > s_start
                            THEN Append(acc, <<s_start, end_idx>>) ELSE acc)
             ELSE SplitFrom(ws, i + 1, s_start, acc)

SplitSentences(ws) == SplitFrom(ws, 0, 0, <<>>)

\* sentence_boundaries.index((s_start, s_end)), 0-based
IndexOf(sb, pair) == (CHOOSE k \in 1..Len(sb) : sb[k] = pair /\ \A j \in 1..(k - 1) : sb[j] # pair) - 1

\* A window capped by the end of the word list instead of the sentence
WinEndPastSentence(s_end, wstart) == Min(Len(words), wstart + window_size)

\* win_end = min(s_end, win_start + window_size)
WinEnd(s_end, wstart) == Min(s_end, wstart + window_size)

\* desired_start = max(0.0, float(w["start"]) - CAPTION_PRE_ROLL_S)
DesiredStart(w) == Max(0, w.start - CAPTION_PRE_ROLL_MS)

\* A start that follows the transcription alone, whatever was shown before
StartTimeNoFloor(ws, wi, wstart, pe) == DesiredStart(ws[wi + 1])

\* start_time of the word wi
StartTime(ws, wi, wstart, pe) ==
    IF wi = wstart THEN Max(pe, DesiredStart(ws[wi + 1])) ELSE pe

\* A last word that always holds until the end of the narration
LastWordNextTotal(ws, sb, s_start, s_end, wend, total) == total

\* Hand-off of the last word of a window, before capping
LastWordNext(ws, sb, s_start, s_end, wend, total) ==
    IF wend < s_end
    THEN ws[wend + 1].start
    ELSE IF sb # <<>> /\ sb[Len(sb)] # <<s_start, s_end>>
         THEN LET cur_idx == IndexOf(sb, <<s_start, s_end>>) IN
              IF cur_idx + 1 < Len(sb)
              THEN LET next_sentence_first == sb[cur_idx + 2][1] IN
                   IF next_sentence_first < Len(ws)
                   THEN ws[next_sentence_first + 1].start ELSE total
              ELSE total
         ELSE total

\* next_start of the word wi before `min(next_start, end + post-roll, total_dur)`
HandOff(ws, sb, s_start, s_end, wend, wi, total) ==
    IF wi < wend - 1
    THEN ws[wi + 2].start
    ELSE LastWordNext(ws, sb, s_start, s_end, wend, total)

\* No word handled yet
NoHandOff == [k |-> 0 - 1, win_start |-> 0, win_end |-> 0, wi |-> 0 - 1,
              next_start |-> 0]

\* next_start of the word wi
NextStart(ws, sb, s_start, s_end, wend, wi, total) ==
    IF wi < wend - 1
    THEN ws[wi + 2].start
    ELSE Min(LastWordNext(ws, sb, s_start, s_end, wend, total),
             Min(ws[wi + 1].end + CAPTION_POST_ROLL_MS, total))

\* end_time = min(total_dur, next_start); if end_time < start_time: end_time = start_time
EndTime(total, next_start, start_time) ==
    LET e == Min(total, next_start) IN IF e < start_time THEN start_time ELSE e

CaptionInit ==
    /\ \/ \E n \in 0..MaxWords, first \in FirstStarts, slack \in TotalSlacks :
            \E gaps \in [1..(n - 1) -> Gaps] :
            \E terms \in {t \in SUBSET (1..n) : Cardinality(t) <= MaxTerminals} :
                /\ words = BuildWords(n, first, gaps, terms)
                /\ total_dur = IF n = 0 THEN slack
                               ELSE StartOf(first, gaps, n) + WordLen + slack
       \/ /\ words = ScenarioWords
          /\ total_dur \in {ScenarioWords[7].end + slack : slack \in TotalSlacks}
       \/ /\ words = OverlapWords
          /\ total_dur \in {OverlapWords[2].end + slack :
                               slack \in TotalSlacks \cup EarlySlacks}
    /\ sentence_boundaries = <<>>
    /\ cap_k = 0
    /\ cap_idx = 0
    /\ win_start = 0
    /\ win_end = 0
    /\ cap_wi = 0
    /\ prev_end = 0
    /\ clips = <<>>
    /\ cap_pc = "start"
    /\ cap_opened = FALSE
    /\ cap_written = FALSE
    /\ cap_result = "none"
    /\ cap_clamped = FALSE
    /\ cap_handoff = NoHandOff

CaptionIdle ==
    /\ words = <<>>
    /\ total_dur = 0
    /\ sentence_boundaries = <<>>
    /\ cap_k = 0
    /\ cap_idx = 0
    /\ win_start = 0
    /\ win_end = 0
    /\ cap_wi = 0
    /\ prev_end = 0
    /\ clips = <<>>
    /\ cap_pc = "idle"
    /\ cap_opened = FALSE
    /\ cap_written = FALSE
    /\ cap_result = "none"
    /\ cap_clamped = FALSE
    /\ cap_handoff = NoHandOff

\* `not words`, with nothing transcribed taken for something transcribed
NoWordsNever(ws) == FALSE

\* `not words`: the transcription returned an empty list
NoWords(ws) == ws = <<>>

\* min(total_dur, next_start) < start_time for the word wi: the case of
\* `if end_time < start_time: end_time = start_time`
EndBeforeStart(ws, sb, k, wstart, wend, wi, pe, total) ==
    LET s_start    == sb[k + 1][1]
        s_end      == sb[k + 1][2]
        start_time == StartTime(ws, wi, wstart, pe)
        next_start == NextStart(ws, sb, s_start, s_end, wend, wi, total)
    IN  Min(total, next_start) < start_time

\* if not words: return video_path
CapNoWords ==
    /\ cap_pc = "start"
    /\ NoWords(words)
    /\ cap_pc' = "noop"
    /\ UNCHANGED <<words, total_dur, sentence_boundaries, cap_k, cap_idx,
                   win_start, win_end, cap_wi, prev_end, clips>>
    /\ cap_result' = "video_path"
    /\ UNCHANGED <<cap_opened, cap_written, cap_clamped, cap_handoff>>
    /\ UNCHANGED notCaptionVars

\* Durations, prev_end = 0.0 and the sentence split
CapSplit ==
    /\ cap_pc = "start"
    /\ ~NoWords(words)
    /\ sentence_boundaries' = SplitSentences(words)
    /\ prev_end' = 0
    /\ cap_k' = 0
    /\ cap_pc' = "sentence"
    /\ UNCHANGED <<words, total_dur, cap_idx, win_start, win_end, cap_wi, clips>>
    /\ cap_opened' = TRUE
    /\ UNCHANGED <<cap_written, cap_result, cap_clamped, cap_handoff>>
    /\ UNCHANGED notCaptionVars

\* for (s_start, s_end) in sentence_boundaries: idx = s_start
CapSentence ==
    /\ cap_pc = "sentence"
    /\ IF cap_k < Len(sentence_boundaries)
       THEN /\ cap_idx' = sentence_boundaries[cap_k + 1][1]
            /\ cap_pc' = "while"
       ELSE /\ cap_idx' = cap_idx
            /\ cap_pc' = "write"
    /\ UNCHANGED <<words, total_dur, sentence_boundaries, cap_k,
                   win_start, win_end, cap_wi, prev_end, clips>>
    /\ UNCHANGED <<cap_opened, cap_written, cap_result, cap_clamped, cap_handoff>>
    /\ UNCHANGED notCaptionVars

\* while idx < s_end: win_start = idx; win_end = min(s_end, win_start + window_size)
CapWhile ==
    /\ cap_pc = "while"
    /\ LET s_end == sentence_boundaries[cap_k + 1][2] IN
       IF cap_idx < s_end
       THEN /\ win_start' = cap_idx
            /\ win_end' = WinEnd(s_end, cap_idx)
            /\ cap_wi' = cap_idx
            /\ cap_k' = cap_k
            /\ cap_pc' = "word"
       ELSE /\ cap_k' = cap_k + 1
            /\ cap_pc' = "sentence"
            /\ UNCHANGED <<win_start, win_end, cap_wi>>
    /\ UNCHANGED <<words, total_dur, sentence_boundaries, cap_idx, prev_end, clips>>
    /\ UNCHANGED <<cap_opened, cap_written, cap_result, cap_clamped, cap_handoff>>
    /\ UNCHANGED notCaptionVars

\* Body of `for wi in range(win_start, win_end)` for one word
CapWord ==
    /\ cap_pc = "word"
    /\ cap_wi < win_end
    /\ LET s_start    == sentence_boundaries[cap_k + 1][1]
           s_end      == sentence_boundaries[cap_k + 1][2]
           start_time == StartTime(words, cap_wi, win_start, prev_end)
           next_start == NextStart(words, sentence_boundaries, s_start, s_end,
                                   win_end, cap_wi, total_dur)
           end_time   == EndTime(total_dur, next_start, start_time)
           duration   == end_time - start_time
       IN  IF duration <= 0
           THEN UNCHANGED <<clips, prev_end>>
           ELSE /\ clips' = Append(clips,
                                   [snippet_from |-> win_start,
                                    snippet_to |-> win_end,
                                    local_index |-> cap_wi - win_start,
                                    start |-> start_time,
                                    duration |-> duration])
                /\ prev_end' = end_time
    /\ cap_wi' = cap_wi + 1
    /\ UNCHANGED <<words, total_dur, sentence_boundaries, cap_k, cap_idx,
                   win_start, win_end, cap_pc>>
    /\ cap_clamped' = (cap_clamped \/ EndBeforeStart(words, sentence_boundaries,
                                                     cap_k, win_start, win_end,
                                                     cap_wi, prev_end, total_dur))
    /\ cap_handoff' = [k |-> cap_k, win_start |-> win_start, win_end |-> win_end,
                       wi |-> cap_wi,
                       next_start |-> HandOff(words, sentence_boundaries,
                                              sentence_boundaries[cap_k + 1][1],
                                              sentence_boundaries[cap_k + 1][2],
                                              win_end, cap_wi, total_dur)]
    /\ UNCHANGED <<cap_opened, cap_written, cap_result>>
    /\ UNCHANGED notCaptionVars

\* idx = win_end
CapAdvance ==
    /\ cap_pc = "word"
    /\ cap_wi >= win_end
    /\ cap_idx' = win_end
    /\ cap_pc' = "while"
    /\ UNCHANGED <<words, total_dur, sentence_boundaries, cap_k,
                   win_start, win_end, cap_wi, prev_end, clips>>
    /\ UNCHANGED <<cap_opened, cap_written, cap_result, cap_clamped, cap_handoff>>
    /\ UNCHANGED notCaptionVars

\* CompositeVideoClip([base] + clips).write_videofile(target_path)
CapWrite ==
    /\ cap_pc = "write"
    /\ cap_pc' = "done"
    /\ UNCHANGED <<words, total_dur, sentence_boundaries, cap_k, cap_idx,
                   win_start, win_end, cap_wi, prev_end, clips>>
    /\ cap_written' = TRUE
    /\ cap_result' = "target_path"
    /\ UNCHANGED <<cap_opened, cap_clamped, cap_handoff>>
    /\ UNCHANGED notCaptionVars

(***************************************************************************)
(* Ken Burns planners: create_kenburns_with_ffmpeg (ffmpeg_helpers.py) and *)
(* ken_burns_effect_ffmpeg (makeAnimation.py).  Zoom levels are in         *)
(* hundredths.  The pan quantities of create_kenburns_with_ffmpeg are in   *)
(* tenths of a pixel; a pan direction of ken_burns_effect_ffmpeg is the    *)
(* pair <<cos, sin>> of pan_angle in fifths.                               *)
(***************************************************************************)
\* makeAnimation.py constants
ZOOM_MIN == 105

ZOOM_MAX == 115

\* PAN_MAX_RATIO = 0.1, as the divisor 1 / PAN_MAX_RATIO
PAN_MAX_RATIO_DIV == 10

TARGET_WIDTH == 1920

TARGET_HEIGHT == 1080

FPS == 60

\* scaled_width = int(TARGET_WIDTH * scale_factor), scale_factor = 2.5
ScaledWidth == (TARGET_WIDTH * 5) \div 2

\* ffmpeg_helpers.py defaults: fps = 30, pan_max_px = 60.0, overscale = 1.25
KenburnsFps == 30

PanMaxPx == 60

\* Tenths of a pixel per pixel
PxScale == 10

ImageSizes == {<<1024, 1024>>, <<1920, 1080>>, <<800, 1200>>}

\* target_size: the default and the portrait size makeShort passes
TargetSizes == {<<1920, 1080>>, <<1080, 1920>>}

\* zoom_start, zoom_end offered to create_kenburns_with_ffmpeg
ZoomPairs == {<<105, 115>>, <<100, 120>>}

\* pan_angle = random.uniform(0, 2*pi), sampled where cos and sin are rational
PanDirs == {<<5, 0>>, <<0, 5>>, <<0 - 5, 0>>, <<0, 0 - 5>>, <<3, 4>>, <<0 - 4, 0 - 3>>}

\* duration values in milliseconds
KbDurations == {10, 50}

RECURSIVE Gcd(_, _)
Gcd(a, b) == IF b = 0 THEN a ELSE Gcd(b, a % b)

\* total_frames = int(override) if override is not None and int(override) > 1
\*                else max(2, int(round(fps * duration)));  override 0 is None
TotalFramesOf(override, duration_ms, fps) ==
    IF override > 1 THEN override ELSE Max(2, RoundDiv(fps * duration_ms, 1000))

\* cover_scale = max(target_w / img_w, target_h / img_h), as a reduced fraction
CoverScale(im, tgt) ==
    LET useW == tgt[1] * im[2] >= tgt[2] * im[1]
        n == IF useW THEN tgt[1] ELSE tgt[2]
        d == IF useW THEN im[1] ELSE im[2]
        g == Gcd(n, d)
    IN  <<n \div g, d \div g>>

\* base_w = int(2 * round((img_w * base_scale) / 2)), base_scale = cover_scale * 1.25
BaseDim(side, cover) == 2 * RoundDiv(side * cover[1] * 5, cover[2] * 8)

\* min(side * scale_start, side * scale_end), in tenths of a pixel
MinFrameDim(side, cover, zs, ze) == (side * cover[1] * Min(zs, ze)) \div (cover[2] * 8)

\* max_pan = max(0, (min_frame - target) / 2 - 2), then capped by
\* pan_max_px * (min_frame / max(1, target))
MaxPan(min_frame, target) ==
    LET geo == Max(0, (min_frame - PxScale * target) \div 2 - 2 * PxScale)
        cap == (PanMaxPx * min_frame) \div Max(1, target)
    IN  Min(geo, cap)

\* random.uniform(-m, m) if m > 0 else 0.0, sampled at the ends and the centre
OffsetSamples(m) == IF m > 0 THEN {0 - m, 0, m} ELSE {0}

RandOffsets(mp) == {<<ox, oy>> : ox \in OffsetSamples(mp[1]), oy \in OffsetSamples(mp[2])}

\* math.hypot(end_x - start_x, end_y - start_y) >= min_travel, where
\* min_travel = 0.25 * hypot(max_pan_x, max_pan_y), or 10.0 when that is 0
FarEnough(s, e, mp) ==
    LET dx == e[1] - s[1]
        dy == e[2] - s[2]
        m2 == mp[1] * mp[1] + mp[2] * mp[2]
    IN  IF m2 = 0
        THEN dx * dx + dy * dy >= (10 * PxScale) * (10 * PxScale)
        ELSE 16 * (dx * dx + dy * dy) >= m2

\* if tries > 8 and (max_pan_x + max_pan_y) > 0: end_x, end_y = -start_x, -start_y
Mirrored(s, e, t, mp) ==
    IF t > 8 /\ mp[1] + mp[2] > 0 THEN <<0 - s[1], 0 - s[2]>> ELSE e

KenInit ==
    /\ kb_fn \in {"create_kenburns_with_ffmpeg", "ken_burns_effect_ffmpeg"}
    /\ img \in ImageSizes
    /\ target_size \in TargetSizes
    /\ \E ov \in 0..MaxKbFrames, dur \in KbDurations :
         total_frames = TotalFramesOf(ov, dur,
                          IF kb_fn = "ken_burns_effect_ffmpeg" THEN FPS ELSE KenburnsFps)
    /\ \E zp \in ZoomPairs :
         /\ zoom_start = IF kb_fn = "ken_burns_effect_ffmpeg" THEN ZOOM_MIN ELSE zp[1]
         /\ zoom_end = IF kb_fn = "ken_burns_effect_ffmpeg" THEN ZOOM_MAX ELSE zp[2]
    /\ base_size = <<0, 0>>
    /\ max_pan = <<0, 0>>
    /\ start_off = <<0, 0>>
    /\ end_off = <<0, 0>>
    /\ tries = 0
    /\ pan_dir = <<0, 0>>
    /\ on = 0
    /\ kb_attempts = 0
    /\ kb_pc = "start"

KenIdle ==
    /\ kb_fn = "none"
    /\ img = <<0, 0>>
    /\ target_size = <<0, 0>>
    /\ total_frames = 0
    /\ zoom_start = 0
    /\ zoom_end = 0
    /\ base_size = <<0, 0>>
    /\ max_pan = <<0, 0>>
    /\ start_off = <<0, 0>>
    /\ end_off = <<0, 0>>
    /\ tries = 0
    /\ pan_dir = <<0, 0>>
    /\ on = 0
    /\ kb_attempts = 0
    /\ kb_pc = "idle"

\* create_kenburns_with_ffmpeg up to the first rand_offset(): zoom direction,
\* base plane, safe pan range, start offset
CkPlan ==
    /\ kb_pc = "start"
    /\ kb_fn = "create_kenburns_with_ffmpeg"
    /\ \E swap \in BOOLEAN :
        LET zs == IF swap THEN zoom_end ELSE zoom_start
            ze == IF swap THEN zoom_start ELSE zoom_end
            cover == CoverScale(img, target_size)
            mp == <<MaxPan(MinFrameDim(img[1], cover, zs, ze), target_size[1]),
                    MaxPan(MinFrameDim(img[2], cover, zs, ze), target_size[2])>>
        IN  /\ zoom_start' = zs
            /\ zoom_end' = ze
            /\ base_size' = <<BaseDim(img[1], cover), BaseDim(img[2], cover)>>
            /\ max_pan' = mp
            /\ start_off' \in RandOffsets(mp)
    /\ tries' = 0
    /\ kb_pc' = "sample"
    /\ UNCHANGED <<kb_fn, img, target_size, total_frames, end_off, pan_dir, on,
                   kb_attempts>>
    /\ UNCHANGED notKenVars

\* One iteration of the `while True` loop; on break, the mirror rule and the
\* start of the first render
CkSample ==
    /\ kb_pc = "sample"
    /\ \E e \in RandOffsets(max_pan) :
        IF FarEnough(start_off, e, max_pan) \/ tries > 8
        THEN /\ end_off' = Mirrored(start_off, e, tries, max_pan)
             /\ tries' = tries
             /\ kb_attempts' = 1
             /\ kb_pc' = "render"
        ELSE /\ end_off' = e
             /\ tries' = tries + 1
             /\ UNCHANGED <<kb_attempts, kb_pc>>
    /\ on' = 0
    /\ UNCHANGED <<kb_fn, img, target_size, total_frames, zoom_start, zoom_end,
                   base_size, max_pan, start_off, pan_dir>>
    /\ UNCHANGED notKenVars

\* ken_burns_effect_ffmpeg up to the ffmpeg call (cache miss): pan angle,
\* zoom direction, scaled plane
KbePlan ==
    /\ kb_pc = "start"
    /\ kb_fn = "ken_burns_effect_ffmpeg"
    /\ pan_dir' \in PanDirs
    /\ \E zin \in BOOLEAN :
        /\ zoom_start' = IF zin THEN ZOOM_MIN ELSE ZOOM_MAX
        /\ zoom_end' = IF zin THEN ZOOM_MAX ELSE ZOOM_MIN
    /\ base_size' = <<ScaledWidth, 2 * RoundDiv(ScaledWidth * img[2], 2 * img[1])>>
    /\ on' = 0
    /\ kb_attempts' = 1
    /\ kb_pc' = "render"
    /\ UNCHANGED <<kb_fn, img, target_size, total_frames, max_pan, start_off,
                   end_off, tries>>
    /\ UNCHANGED notKenVars

\* zoompan evaluates its expressions at the next frame
KbFrame ==
    /\ kb_pc = "render"
    /\ on < total_frames - 1
    /\ on' = on + 1
    /\ UNCHANGED <<kb_fn, img, target_size, total_frames, zoom_start, zoom_end,
                   base_size, max_pan, start_off, end_off, tries, pan_dir,
                   kb_attempts, kb_pc>>
    /\ UNCHANGED notKenVars

\* ffmpeg exits with status 0 after the last frame
KbRenderOk ==
    /\ kb_pc = "render"
    /\ on = total_frames - 1
    /\ kb_pc' = "done"
    /\ UNCHANGED <<kb_fn, img, target_size, total_frames, zoom_start, zoom_end,
                   base_size, max_pan, start_off, end_off, tries, pan_dir, on,
                   kb_attempts>>
    /\ UNCHANGED notKenVars

\* create_kenburns_with_ffmpeg: CalledProcessError on the first render starts
\* the fallback render with no pan; an error of the fallback propagates
CkRenderFail ==
    /\ kb_pc = "render"
    /\ kb_fn = "create_kenburns_with_ffmpeg"
    /\ IF kb_attempts = 1
       THEN /\ kb_attempts' = 2
            /\ start_off' = <<0, 0>>
            /\ end_off' = <<0, 0>>
            /\ on' = 0
            /\ kb_pc' = "render"
       ELSE /\ kb_pc' = "error"
            /\ UNCHANGED <<kb_attempts, start_off, end_off, on>>
    /\ UNCHANGED <<kb_fn, img, target_size, total_frames, zoom_start, zoom_end,
                   base_size, max_pan, tries, pan_dir>>
    /\ UNCHANGED notKenVars

\* ken_burns_effect_ffmpeg: returncode != 0 raises RuntimeError
KbeRenderFail ==
    /\ kb_pc = "render"
    /\ kb_fn = "ken_burns_effect_ffmpeg"
    /\ kb_pc' = "error"
    /\ UNCHANGED <<kb_fn, img, target_size, total_frames, zoom_start, zoom_end,
                   base_size, max_pan, start_off, end_off, tries, pan_dir, on,
                   kb_attempts>>
    /\ UNCHANGED notKenVars

\* denom_frames
DenomFrames == Max(1, total_frames - 1)

\* ken_burns_effect_ffmpeg, frame n: z = zoom_start + zoom_range * (on / denom),
\* as the fraction ZoomNum(n) / ZoomDen
ZoomNum(n) == zoom_start * DenomFrames + (zoom_end - zoom_start) * n

ZoomDen == 100 * DenomFrames

\* ken_burns_effect_ffmpeg, frame n, axis a (1 = x, 2 = y): the crop
\* [lo, lo + size) of the scaled plane, both over the denominator den:
\*   x = iw/2 - (iw/zoom/2) + pan_x_max * (on / denom),  size = iw / zoom
\*   pan_x_max = out_w * PAN_MAX_RATIO * cos(pan_angle)
KbeCrop(n, a) ==
    LET zn == ZoomNum(n)
        side == base_size[a]
        pan == target_size[a] * pan_dir[a] * n
    IN  [lo   |-> 5 * PAN_MAX_RATIO_DIV * DenomFrames * side * (zn - ZoomDen)
                   + 2 * zn * pan,
         size |-> 10 * PAN_MAX_RATIO_DIV * DenomFrames * side * ZoomDen,
         den  |-> 10 * PAN_MAX_RATIO_DIV * DenomFrames * zn,
         side |-> side]

\* create_kenburns_with_ffmpeg, frame n: smoothstep ease p*p*(3-2p), p = on/denom,
\* as the fraction EaseNum(n) / EaseDen
EaseNum(n) == n * n * (3 * DenomFrames - 2 * n)

EaseDen == DenomFrames * DenomFrames * DenomFrames

\* x_num = start*(1-ease) + end*ease, in tenths of a pixel over EaseDen
PanNum(n, a) == start_off[a] * (EaseDen - EaseNum(n)) + end_off[a] * EaseNum(n)

\* z = zoom_start * pow(zoom_end/zoom_start, on/denom) is zoom_start at the
\* first frame, zoom_end at the last and between the two elsewhere; the
\* smaller of the two is the zoom whose framed footprint is largest.
ZoomAt(n) ==
    IF n = 0 THEN zoom_start
    ELSE IF n = DenomFrames THEN zoom_end
    ELSE Min(zoom_start, zoom_end)

\* create_kenburns_with_ffmpeg, frame n, axis a: the crop the expressions
\* frame, [lo, lo + size) over den:
\*   x = (iw - target_w/zoom)/2 + x_num/zoom,  size = target_w / zoom
CkCrop(n, a) ==
    LET z == ZoomAt(n)
        side == base_size[a]
    IN  [lo   |-> PxScale * EaseDen * (side * z - 100 * target_size[a])
                   + 200 * PanNum(n, a),
         size |-> 200 * PxScale * EaseDen * target_size[a],
         den  |-> 2 * PxScale * EaseDen * z,
         side |-> side]

CropAt(n, a) ==
    IF kb_fn = "ken_burns_effect_ffmpeg" THEN KbeCrop(n, a) ELSE CkCrop(n, a)

\* The crop lies inside the scaled image along its axis
CropInside(c) == c.lo >= 0 /\ c.lo + c.size <= c.side * c.den

(***************************************************************************)
(* combine_two_clips_with_fades_av                                         *)
(* Times are in milliseconds.  A clip is the length of its video stream,   *)
(* the length of its audio stream (0: no such stream) and whether ffprobe  *)
(* can read it.                                                            *)
(***************************************************************************)
\* Stream lengths offered to the function
AvStreamMs == {0, 400, 1000}

\* fade_seconds values offered to the function
AvFadeMsVals == {0, 300, 2000}

AvClips == [video : AvStreamMs, audio : AvStreamMs, probe_ok : BOOLEAN]

\* ffprobe format=duration: the container lasts as long as its longest stream
ProbedDuration(c) == Max(c.video, c.audio)

\* fade = max(0.0, min(float(fade_seconds), dur_a, dur_b))
AvFade(ms, dur_a, dur_b) == Max(0, Min(ms, Min(dur_a, dur_b)))

\* offset = max(0.0, dur_a - fade)
AvOffset(dur_a, fade) == Max(0, dur_a - fade)

\* acrossfade=d=fade has no offset option: it fades over the last d seconds
\* of the first audio stream
AcrossfadeStart(audio_a, d) == Max(0, audio_a - d)

\* The concat re-encode of the fast path: no transition at all
AvConcatFilter == [kind |-> "concat", video |-> <<>>, audio |-> <<>>]

\* xfade=duration=fade:offset=offset on [0:v][1:v], acrossfade=d=fade on [0:a][1:a]
AvXfadeFilter(a, fade, offset) ==
    [kind  |-> "xfade",
     video |-> [duration |-> fade, offset |-> offset],
     audio |-> [duration |-> fade, offset |-> AcrossfadeStart(a.audio, fade)]]

AvInit ==
    /\ av_clips \in [1..2 -> AvClips]
    /\ av_fade_ms \in AvFadeMsVals
    /\ av_filter = <<>>
    /\ av_pc = "start"

AvIdle ==
    /\ av_clips = <<>>
    /\ av_fade_ms = 0
    /\ av_filter = <<>>
    /\ av_pc = "idle"

\* if fade_seconds <= 0: concat re-encode of both clips
AvFastPath ==
    /\ av_pc = "start"
    /\ av_fade_ms <= 0
    /\ av_filter' = AvConcatFilter
    /\ av_pc' = "render"
    /\ UNCHANGED <<av_clips, av_fade_ms>>
    /\ UNCHANGED notAvVars

\* _probe_duration_seconds_strict raises RuntimeError
AvProbeFail ==
    /\ av_pc = "start"
    /\ av_fade_ms > 0
    /\ \E k \in 1..2 : ~av_clips[k].probe_ok
    /\ av_pc' = "error"
    /\ UNCHANGED <<av_clips, av_fade_ms, av_filter>>
    /\ UNCHANGED notAvVars

\* if dur_a <= 0.0 or dur_b <= 0.0: raise RuntimeError
AvInvalid ==
    /\ av_pc = "start"
    /\ av_fade_ms > 0
    /\ \A k \in 1..2 : av_clips[k].probe_ok
    /\ \E k \in 1..2 : ProbedDuration(av_clips[k]) <= 0
    /\ av_pc' = "error"
    /\ UNCHANGED <<av_clips, av_fade_ms, av_filter>>
    /\ UNCHANGED notAvVars

\* fade, offset and the filter graph (fade <= 0 falls back to the concat encode)
AvPlan ==
    /\ av_pc = "start"
    /\ av_fade_ms > 0
    /\ \A k \in 1..2 : av_clips[k].probe_ok /\ ProbedDuration(av_clips[k]) > 0
    /\ LET dur_a == ProbedDuration(av_clips[1])
           dur_b == ProbedDuration(av_clips[2])
           fade  == AvFade(av_fade_ms, dur_a, dur_b)
       IN  av_filter' = IF fade <= 0 THEN AvConcatFilter
                        ELSE AvXfadeFilter(av_clips[1], fade, AvOffset(dur_a, fade))
    /\ av_pc' = "render"
    /\ UNCHANGED <<av_clips, av_fade_ms>>
    /\ UNCHANGED notAvVars

\* ffmpeg exits with status 0: every mapped stream exists
AvRenderOk ==
    /\ av_pc = "render"
    /\ \A k \in 1..2 : av_clips[k].video > 0
    /\ av_filter.kind = "xfade" => \A k \in 1..2 : av_clips[k].audio > 0
    /\ av_pc' = "done"
    /\ UNCHANGED <<av_clips, av_fade_ms, av_filter>>
    /\ UNCHANGED notAvVars

\* subprocess.run(cmd, check=True) raises CalledProcessError
AvRenderFail ==
    /\ av_pc = "render"
    /\ av_pc' = "error"
    /\ UNCHANGED <<av_clips, av_fade_ms, av_filter>>
    /\ UNCHANGED notAvVars

(***************************************************************************)
(* publish_simple / publish_short (src/upload_video.py)                    *)
(* Times are in seconds.  An item of a videos.list response is             *)
(* [status, licensed]: processingDetails.processingStatus ("absent": no    *)
(* such key) and contentDetails.licensedContent ("absent": no such key).   *)
(***************************************************************************)

\* MAX_RETRIES of resumable_upload
MAX_RETRIES == 10

\* poll_interval and timeout defaults of poll_and_publish; neither caller
\* overrides them
PollInterval == 30

Timeout == 1800

\* Seconds one videos.list round trip can take on top of the sleep
ApiLatency == {0, 20}

\* What videos.list can answer about the uploaded video
ProcessingStatuses == {"succeeded", "failed", "processing", "absent"}

LicensedValues == {"True", "False", "absent"}

NoItem == [status |-> "none", licensed |-> "absent"]

\* processing_details.get("processingStatus", "unknown")
ProcStatus(item) == IF item.status = "absent" THEN "unknown" ELSE item.status

\* A claim check that never sees a claim
ClaimedNever(item) == FALSE

\* content_details.get("licensedContent", False), used as a truth value
Claimed(item) == item.licensed = "True"

UploadInit ==
    /\ up_fn \in {"publish_simple", "publish_short"}
    /\ up_retry = 0
    /\ up_privacy = "none"
    /\ up_thumb = "none"
    /\ up_clock = 0
    /\ up_elapsed = 0
    /\ up_item = NoItem
    /\ up_public = 0
    /\ up_exit = "none"
    /\ up_pc = "upload"

UploadIdle ==
    /\ up_fn = "none"
    /\ up_retry = 0
    /\ up_privacy = "none"
    /\ up_thumb = "none"
    /\ up_clock = 0
    /\ up_elapsed = 0
    /\ up_item = NoItem
    /\ up_public = 0
    /\ up_exit = "none"
    /\ up_pc = "idle"

\* initialize_upload + resumable_upload: next_chunk answers with an id; the
\* insert body asks for privacyStatus "unlisted"
UpUploaded ==
    /\ up_pc = "upload"
    /\ up_privacy' = "unlisted"
    /\ up_pc' = "thumbnail"
    /\ UNCHANGED <<up_fn, up_retry, up_thumb, up_clock, up_elapsed, up_item,
                   up_public, up_exit>>
    /\ UNCHANGED notUploadVars

\* resumable_upload: a retriable error; sleep and loop, or give up
UpUploadRetry ==
    /\ up_pc = "upload"
    /\ up_retry' = up_retry + 1
    /\ IF up_retry + 1 > MAX_RETRIES
       THEN up_pc' = "exit" /\ up_exit' = "upload_failed"
       ELSE up_pc' = "upload" /\ up_exit' = up_exit
    /\ UNCHANGED <<up_fn, up_privacy, up_thumb, up_clock, up_elapsed, up_item,
                   up_public>>
    /\ UNCHANGED notUploadVars

\* resumable_upload: a response without id (sys.exit) or a non-retriable
\* HttpError (raise)
UpUploadFail ==
    /\ up_pc = "upload"
    /\ up_pc' = "exit"
    /\ up_exit' = "upload_failed"
    /\ UNCHANGED <<up_fn, up_retry, up_privacy, up_thumb, up_clock, up_elapsed,
                   up_item, up_public>>
    /\ UNCHANGED notUploadVars

\* `if thumbnail_path:` set_thumbnail; its failure never stops the call
UpThumbnail ==
    /\ up_pc = "thumbnail"
    /\ up_thumb' \in {"none", "set", "failed"}
    /\ up_pc' = "poll"
    /\ UNCHANGED <<up_fn, up_retry, up_privacy, up_clock, up_elapsed, up_item,
                   up_public, up_exit>>
    /\ UNCHANGED notUploadVars

\* One iteration of the polling loop: resp has no items
UpPollNotFound ==
    /\ up_pc = "poll"
    /\ up_elapsed' = up_clock
    /\ up_item' = NoItem
    /\ up_pc' = "exit"
    /\ up_exit' = "not_found"
    /\ UNCHANGED <<up_fn, up_retry, up_privacy, up_thumb, up_clock, up_public>>
    /\ UNCHANGED notUploadVars

\* One iteration of the polling loop: processingStatus == "succeeded" -> break
UpPollSucceeded ==
    /\ up_pc = "poll"
    /\ up_elapsed' = up_clock
    /\ \E lic \in LicensedValues :
        /\ up_item' = [status |-> "succeeded", licensed |-> lic]
        /\ ProcStatus(up_item') = "succeeded"
    /\ up_pc' = "check"
    /\ UNCHANGED <<up_fn, up_retry, up_privacy, up_thumb, up_clock, up_public,
                   up_exit>>
    /\ UNCHANGED notUploadVars

\* One iteration of the polling loop: processingStatus == "failed" -> sys.exit
UpPollFailed ==
    /\ up_pc = "poll"
    /\ up_elapsed' = up_clock
    /\ \E lic \in LicensedValues :
        /\ up_item' = [status |-> "failed", licensed |-> lic]
        /\ ProcStatus(up_item') = "failed"
    /\ up_pc' = "exit"
    /\ up_exit' = "processing_failed"
    /\ UNCHANGED <<up_fn, up_retry, up_privacy, up_thumb, up_clock, up_public>>
    /\ UNCHANGED notUploadVars

\* One iteration of the polling loop: any other status and elapsed > timeout
UpPollTimeout ==
    /\ up_pc = "poll"
    /\ up_elapsed' = up_clock
    /\ \E st \in ProcessingStatuses, lic \in LicensedValues :
        /\ up_item' = [status |-> st, licensed |-> lic]
        /\ ProcStatus(up_item') \notin {"succeeded", "failed"}
    /\ up_clock > Timeout
    /\ up_pc' = "exit"
    /\ up_exit' = "timed_out"
    /\ UNCHANGED <<up_fn, up_retry, up_privacy, up_thumb, up_clock, up_public>>
    /\ UNCHANGED notUploadVars

\* One iteration of the polling loop: any other status, elapsed <= timeout:
\* time.sleep(poll_interval) and poll again
UpPollSleep ==
    /\ up_pc = "poll"
    /\ up_elapsed' = up_clock
    /\ \E st \in ProcessingStatuses, lic \in LicensedValues :
        /\ up_item' = [status |-> st, licensed |-> lic]
        /\ ProcStatus(up_item') \notin {"succeeded", "failed"}
    /\ ~(up_clock > Timeout)
    /\ \E lat \in ApiLatency : up_clock' = up_clock + lat + PollInterval
    /\ up_pc' = "poll"
    /\ UNCHANGED <<up_fn, up_retry, up_privacy, up_thumb, up_public, up_exit>>
    /\ UNCHANGED notUploadVars

\* After the loop: a claimed video stays unlisted
UpKeepUnlisted ==
    /\ up_pc = "check"
    /\ Claimed(up_item)
    /\ up_pc' = "exit"
    /\ up_exit' = "claimed"
    /\ UNCHANGED <<up_fn, up_retry, up_privacy, up_thumb, up_clock, up_elapsed,
                   up_item, up_public>>
    /\ UNCHANGED notUploadVars

\* After the loop: videos.update(privacyStatus = "public"); a failing
\* request is logged and swallowed
UpPublish ==
    /\ up_pc = "check"
    /\ ~Claimed(up_item)
    /\ up_public' = up_public + 1
    /\ \E ok \in BOOLEAN :
        /\ up_privacy' = IF ok THEN "public" ELSE up_privacy
        /\ up_exit' = IF ok THEN "published" ELSE "update_failed"
    /\ up_pc' = "exit"
    /\ UNCHANGED <<up_fn, up_retry, up_thumb, up_clock, up_elapsed, up_item>>
    /\ UNCHANGED notUploadVars

(***************************************************************************)
(* Per-section planning of index.main (src/index.py) and makeShort         *)
(* (src/makeShort.py): cut boundaries from the narration timestamps, frame *)
(* counts per item, then combine_clips_with_fades.  Times are in           *)
(* milliseconds.                                                           *)
(***************************************************************************)

\* CROSSFADE_SECONDS of the two modules
CROSSFADE_SECONDS(fn) == IF fn = "makeShort" THEN 400 ELSE 500

\* FIRST_IMAGE_EXTRA_SECONDS of the two modules
FIRST_IMAGE_EXTRA_SECONDS(fn) == IF fn = "makeShort" THEN 0 ELSE 1000

\* LAST_IMAGE_EXTRA_SECONDS of the two modules
LAST_IMAGE_EXTRA_SECONDS(fn) == 1000

\* math.ceil(seconds * fps)
CeilFrames(ms) == (ms * Fps + 999) \div 1000

\* Narration starts offered by getTimestamps, and the length of the last
\* item's narration
ItemStartMs == {0, 1000, 1200, 5000}

ItemLenMs == {300}

\* Item lists of a section: 1..MaxItems items in narration order
ItemStarts ==
    {st \in UNION {[1..n -> ItemStartMs] : n \in 1..MaxItems} :
        \A k \in 1..(Len(st) - 1) : st[k] <= st[k + 1]}

\* boundaries = [0]; boundaries.append(max(boundaries[-1] + 1, ceil(starts[k] * fps)))
RECURSIVE StartBoundaries(_, _)
StartBoundaries(starts, k) ==
    IF k = 0 THEN <<0>>
    ELSE LET b == StartBoundaries(starts, k - 1) IN
         Append(b, Max(b[Len(b)] + 1, CeilFrames(starts[k + 1])))

\* All boundaries: the starts, the last boundary (end of last VO + extra
\* hold), then every boundary but the first shifted by the first-image extra
Boundaries(fn, starts, end) ==
    LET b == StartBoundaries(starts, Len(starts) - 1)
        last_end_frames == CeilFrames(end + LAST_IMAGE_EXTRA_SECONDS(fn))
        all == Append(b, Max(b[Len(b)] + 1, last_end_frames))
        extra_frames_first == CeilFrames(FIRST_IMAGE_EXTRA_SECONDS(fn))
    IN  [k \in 1..Len(all) |->
            IF k > 1 /\ extra_frames_first > 0
            THEN all[k] + extra_frames_first ELSE all[k]]

\* index.main: frames_per_item.append(max(2, b - a))
IndexFrames(b) == [k \in 1..(Len(b) - 1) |-> Max(2, b[k + 1] - b[k])]

\* makeShort: s_spans.append(max(1, b - a))
Spans(b) == [k \in 1..(Len(b) - 1) |-> Max(1, b[k + 1] - b[k])]

\* makeShort: F = max(1, int(round(CROSSFADE_SECONDS * fps)))
ShortF == Max(1, RoundDiv(CROSSFADE_SECONDS("makeShort") * Fps, 1000))

\* makeShort, backward pass: n_last = max(2, s_last);
\* f_i = min(F, n_{i+1}); n_i = max(2, s_i + f_i)
RECURSIVE NValue(_, _)
NValue(s, i) ==
    IF i = Len(s) THEN Max(2, s[i])
    ELSE Max(2, s[i] + Min(ShortF, NValue(s, i + 1)))

\* makeShort: frames_per_item (N == 1: [max(2, s_spans[0])])
ShortFrames(s) == [i \in 1..Len(s) |-> NValue(s, i)]

PlanInit ==
    /\ pl_fn \in {"index.main", "makeShort"}
    /\ pl_starts \in ItemStarts
    /\ \E len \in ItemLenMs : pl_end = pl_starts[Len(pl_starts)] + len
    /\ pl_boundaries = <<>>
    /\ pl_s_spans = <<>>
    /\ pl_frames = <<>>
    /\ pl_pc = "plan"

PlanIdle ==
    /\ pl_fn = "none"
    /\ pl_starts = <<>>
    /\ pl_end = 0
    /\ pl_boundaries = <<>>
    /\ pl_s_spans = <<>>
    /\ pl_frames = <<>>
    /\ pl_pc = "idle"

\* index.main: boundaries and frames per item of one section
PlanIndex ==
    /\ pl_pc = "plan"
    /\ pl_fn = "index.main"
    /\ pl_boundaries' = Boundaries(pl_fn, pl_starts, pl_end)
    /\ pl_s_spans' = IndexFrames(pl_boundaries')
    /\ pl_frames' = IndexFrames(pl_boundaries')
    /\ pl_pc' = "animate"
    /\ UNCHANGED <<pl_fn, pl_starts, pl_end>>
    /\ UNCHANGED notPlanVars

\* makeShort: boundaries, planned spans and the backward fade-compensated
\* allocation
PlanShort ==
    /\ pl_pc = "plan"
    /\ pl_fn = "makeShort"
    /\ pl_boundaries' = Boundaries(pl_fn, pl_starts, pl_end)
    /\ pl_s_spans' = Spans(pl_boundaries')
    /\ pl_frames' = ShortFrames(pl_s_spans')
    /\ pl_pc' = "animate"
    /\ UNCHANGED <<pl_fn, pl_starts, pl_end>>
    /\ UNCHANGED notPlanVars

\* ken_burns_effect_ffmpeg(..., total_frames_override=nframes) per item, then
\* combine_clips_with_fades(clip_paths, ..., fade_seconds=CROSSFADE_SECONDS)
CallCombine ==
    /\ pl_pc = "animate"
    /\ pl_pc' = "combine"
    /\ video_frames' = pl_frames
    /\ fade_ms' = CROSSFADE_SECONDS(pl_fn)
    /\ pair_fade_frames_override' = <<>>
    /\ cc_pc' = "start"
    /\ UNCHANGED <<nb_frames, durations, pair_fade_frames, segment_paths, cc_i,
                   output, temp_files, list_path, runs>>
    /\ UNCHANGED <<pl_fn, pl_starts, pl_end, pl_boundaries, pl_s_spans, pl_frames>>
    /\ UNCHANGED <<captionVars, kenVars, avVars, uploadVars, geminiVars, poolVars>>

(***************************************************************************)
(* ask_gemini, ask_gemini_with_video, ask_gemini_with_images and their     *)
(* shared on-disk cache and client (src/gemini.py), called from several    *)
(* threads.  A response text is a pair <<a, b>>: the text generated for    *)
(* thread t is <<t, t>>, the empty string is <<0, 0>>, and <<a, b>> with   *)
(* a # b is a text that begins like a's and ends like b's.  A cache file   *)
(* is written and read in chunks (the I/O buffer size): the first chunk    *)
(* ends, and the second begins, inside the "response" string, since the    *)
(* "params" before it are the same for every writer of one key.  A chunk   *)
(* is <<a, part>>.                                                         *)
(***************************************************************************)

Threads == 1..MaxThreads

GeminiFns == {"ask_gemini", "ask_gemini_with_video", "ask_gemini_with_images"}

\* _cache_key(params): each function is called with one set of parameters
CacheKey(fn) == fn

\* max_retries / max_content_retries / max_upload_retries defaults
MaxRetries == 3

EmptyText == <<0, 0>>

\* Python's None
None == <<>>

TextOf(t) == <<t, t>>

\* json.dump({"params": ..., "response": response, "timestamp": ...}, f)
JsonChunks(response) == <<<<response[1], 1>>, <<response[2], 2>>>>

\* json.load(f) then data.get("response"); an exception gives None
JsonResponse(buf) ==
    IF Len(buf) = 2 /\ buf[1][2] = 1 /\ buf[2][2] = 2
    THEN <<buf[1][1], buf[2][1]>>
    ELSE None

\* f.write of the chunk at position p of a file whose handle was opened
\* before: bytes between the end of the file and p read as zeros
WriteAt(file, p, chunk) ==
    [q \in 1..Max(Len(file), p) |->
        IF q = p THEN chunk
        ELSE IF q <= Len(file) THEN file[q] ELSE <<0 - 1, 0>>]

\* A thread that is in no call
NoCall ==
    [fn |-> "ask_gemini", pc |-> "idle", buf |-> <<>>, pos |-> 0, attempt |-> 0,
     upload |-> 0, resp |-> None, result |-> None, hit |-> FALSE, client |-> 0,
     last_exception |-> FALSE, calls |-> 0]

\* The entry of a call of fn: the cache lookup comes first
Enter(th, fn) ==
    [th EXCEPT !.fn = fn, !.pc = "lookup", !.buf = <<>>, !.pos = 0, !.attempt = 0,
               !.upload = 0, !.resp = None, !.result = None, !.hit = FALSE,
               !.last_exception = FALSE, !.calls = @ + 1]

\* The call returns result; its locals are gone
Return(th, result, hit) ==
    [th EXCEPT !.pc = "returned", !.buf = <<>>, !.pos = 0, !.attempt = 0,
               !.upload = 0, !.resp = None, !.last_exception = FALSE,
               !.result = result, !.hit = hit]

\* The call raises; its locals are gone
Raise(th) ==
    [th EXCEPT !.pc = "raised", !.buf = <<>>, !.pos = 0, !.attempt = 0,
               !.upload = 0, !.resp = None, !.last_exception = FALSE]

GeminiNoCache ==
    /\ gm_CLIENT = 0
    /\ gm_constructed = 0
    /\ gm_exists = [k \in GeminiFns |-> FALSE]
    /\ gm_files = [k \in GeminiFns |-> <<>>]
    /\ gm_saved = [k \in GeminiFns |-> {}]

\* getPlan's pool: every worker thread enters ask_gemini, all with the
\* same parameters
GeminiInit ==
    /\ gm_th = [t \in Threads |-> Enter(NoCall, "ask_gemini")]
    /\ GeminiNoCache

\* The main thread before its first call, no worker running
MainInit ==
    /\ gm_th = [t \in Threads |-> NoCall]
    /\ GeminiNoCache

GeminiIdle ==
    /\ gm_th = <<>>
    /\ gm_CLIENT = 0
    /\ gm_constructed = 0
    /\ gm_exists = <<>>
    /\ gm_files = <<>>
    /\ gm_saved = <<>>

\* The main thread (thread 1) calls one of the three helpers, one call
\* after the other
GmCall ==
    \E fn \in GeminiFns :
        /\ gm_th[1].pc \in {"idle", "returned", "raised"}
        /\ gm_th[1].calls < MaxCalls
        /\ gm_th' = [gm_th EXCEPT ![1] = Enter(@, fn)]
        /\ UNCHANGED <<gm_CLIENT, gm_constructed, gm_exists, gm_files, gm_saved>>
        /\ UNCHANGED notGeminiVars

\* _load_cache: if not os.path.exists(path): return None; else open(path)
GmLookup ==
    \E t \in Threads :
        /\ gm_th[t].pc = "lookup"
        /\ gm_th' = [gm_th EXCEPT ![t].pc =
                        IF gm_exists[CacheKey(gm_th[t].fn)] THEN "read" ELSE "client",
                                  ![t].pos = 1]
        /\ UNCHANGED <<gm_CLIENT, gm_constructed, gm_exists, gm_files, gm_saved>>
        /\ UNCHANGED notGeminiVars

\* _load_cache: json.load(f) reads the file chunk by chunk; at the end of
\* the file the text is parsed: a response is a hit, an exception a miss
GmRead ==
    \E t \in Threads :
        LET file == gm_files[CacheKey(gm_th[t].fn)]
            p == gm_th[t].pos
        IN  /\ gm_th[t].pc = "read"
            /\ IF p <= Len(file)
               THEN gm_th' = [gm_th EXCEPT ![t].buf = Append(@, file[p]),
                                           ![t].pos = p + 1]
               ELSE LET cached == JsonResponse(gm_th[t].buf) IN
                    IF cached # None
                    THEN gm_th' = [gm_th EXCEPT ![t] = Return(@, cached, TRUE)]
                    ELSE gm_th' = [gm_th EXCEPT ![t].pc = "client", ![t].buf = <<>>,
                                                ![t].pos = 0]
            /\ UNCHANGED <<gm_CLIENT, gm_constructed, gm_exists, gm_files, gm_saved>>
            /\ UNCHANGED notGeminiVars

\* _get_client: `if _CLIENT is None:`
GmCheckClient ==
    \E t \in Threads :
        /\ gm_th[t].pc = "client"
        /\ gm_th' = [gm_th EXCEPT ![t].pc =
                        IF gm_CLIENT = 0 THEN "construct" ELSE "return_client"]
        /\ UNCHANGED <<gm_CLIENT, gm_constructed, gm_exists, gm_files, gm_saved>>
        /\ UNCHANGED notGeminiVars

\* _get_client: `_CLIENT = genai.Client(api_key=api_key)`
GmConstruct ==
    \E t \in Threads :
        /\ gm_th[t].pc = "construct"
        /\ gm_constructed' = gm_constructed + 1
        /\ gm_CLIENT' = t
        /\ gm_th' = [gm_th EXCEPT ![t].pc = "return_client"]
        /\ UNCHANGED <<gm_exists, gm_files, gm_saved>>
        /\ UNCHANGED notGeminiVars

\* _get_client: `return _CLIENT`
GmReturnClient ==
    \E t \in Threads :
        /\ gm_th[t].pc = "return_client"
        /\ gm_th' = [gm_th EXCEPT ![t].pc = "generate", ![t].client = gm_CLIENT]
        /\ UNCHANGED <<gm_CLIENT, gm_constructed, gm_exists, gm_files, gm_saved>>
        /\ UNCHANGED notGeminiVars

\* One generate_content attempt that returns text: a non-empty response
\* goes to _save_cache
GmGenerateText ==
    \E t \in Threads :
        /\ gm_th[t].pc = "generate"
        /\ gm_th' = [gm_th EXCEPT ![t].pc = "save", ![t].resp = TextOf(t)]
        /\ UNCHANGED <<gm_CLIENT, gm_constructed, gm_exists, gm_files, gm_saved>>
        /\ UNCHANGED notGeminiVars

\* One generate_content attempt that returns an empty text.  After the last
\* attempt ask_gemini falls through to the prompt rewrite (calls under other
\* keys), ask_gemini_with_images returns "", and the retry helper of
\* ask_gemini_with_video returns "" to its caller, which saves it.
GmGenerateEmpty ==
    \E t \in Threads :
        LET last == gm_th[t].attempt + 1 >= MaxRetries
            fn == gm_th[t].fn
        IN  /\ gm_th[t].pc = "generate"
            /\ IF ~last
               THEN gm_th' = [gm_th EXCEPT ![t].attempt = @ + 1]
               ELSE IF fn = "ask_gemini_with_video"
                    THEN gm_th' = [gm_th EXCEPT ![t].pc = "save",
                                                ![t].resp = EmptyText]
                    ELSE IF fn = "ask_gemini"
                         THEN gm_th' = [gm_th EXCEPT ![t].pc = "rewrite"]
                         ELSE gm_th' = [gm_th EXCEPT ![t] = Return(@, EmptyText, FALSE)]
            /\ UNCHANGED <<gm_CLIENT, gm_constructed, gm_exists, gm_files, gm_saved>>
            /\ UNCHANGED notGeminiVars

\* One attempt that raises.  ask_gemini retries and then falls through to
\* the rewrite; ask_gemini_with_images raises on the last attempt;
\* ask_gemini_with_video re-raises on the last content attempt, which
\* fails the upload attempt: upload again, or raise after the last one.
GmGenerateRaises ==
    \E t \in Threads :
        LET last == gm_th[t].attempt + 1 >= MaxRetries
            fn == gm_th[t].fn
            th == [gm_th[t] EXCEPT !.last_exception = TRUE]
        IN  /\ gm_th[t].pc = "generate"
            /\ IF ~last
               THEN gm_th' = [gm_th EXCEPT ![t] = [th EXCEPT !.attempt = @ + 1]]
               ELSE IF fn = "ask_gemini"
                    THEN gm_th' = [gm_th EXCEPT ![t] = [th EXCEPT !.pc = "rewrite"]]
                    ELSE IF fn = "ask_gemini_with_video"
                            /\ gm_th[t].upload + 1 < MaxRetries
                         THEN gm_th' = [gm_th EXCEPT ![t] =
                                            [th EXCEPT !.upload = @ + 1, !.attempt = 0]]
                         ELSE gm_th' = [gm_th EXCEPT ![t] = Raise(@)]
            /\ UNCHANGED <<gm_CLIENT, gm_constructed, gm_exists, gm_files, gm_saved>>
            /\ UNCHANGED notGeminiVars

\* ask_gemini after max_retries failed attempts: the prompt is rewritten
\* and asked again, both under other cache keys, so nothing is saved under
\* this call's key.  The call returns the rewritten call's answer (a text
\* or ""); if the rewrite raises, it raises when an attempt had raised and
\* returns "" otherwise.
GmRewrite ==
    \E t \in Threads :
        /\ gm_th[t].pc = "rewrite"
        /\ \/ gm_th' = [gm_th EXCEPT ![t] = Return(@, TextOf(t), FALSE)]
           \/ gm_th' = [gm_th EXCEPT ![t] = Return(@, EmptyText, FALSE)]
           \/ IF gm_th[t].last_exception
              THEN gm_th' = [gm_th EXCEPT ![t] = Raise(@)]
              ELSE gm_th' = [gm_th EXCEPT ![t] = Return(@, EmptyText, FALSE)]
        /\ UNCHANGED <<gm_CLIENT, gm_constructed, gm_exists, gm_files, gm_saved>>
        /\ UNCHANGED notGeminiVars

\* _save_cache: open(path, "w") creates or truncates the file
GmOpenWrite ==
    \E t \in Threads :
        LET k == CacheKey(gm_th[t].fn) IN
        /\ gm_th[t].pc = "save"
        /\ gm_exists' = [gm_exists EXCEPT ![k] = TRUE]
        /\ gm_files' = [gm_files EXCEPT ![k] = <<>>]
        /\ gm_saved' = [gm_saved EXCEPT ![k] = @ \cup {gm_th[t].resp}]
        /\ gm_th' = [gm_th EXCEPT ![t].pc = "write", ![t].pos = 1]
        /\ UNCHANGED <<gm_CLIENT, gm_constructed>>
        /\ UNCHANGED notGeminiVars

\* _save_cache: json.dump writes the next chunk at this handle's position;
\* after the last chunk the file is closed and the call returns the text
GmWrite ==
    \E t \in Threads :
        LET k == CacheKey(gm_th[t].fn)
            doc == JsonChunks(gm_th[t].resp)
            p == gm_th[t].pos
        IN  /\ gm_th[t].pc = "write"
            /\ gm_files' = [gm_files EXCEPT ![k] = WriteAt(@, p, doc[p])]
            /\ gm_th' = IF p < Len(doc)
                        THEN [gm_th EXCEPT ![t].pos = p + 1]
                        ELSE [gm_th EXCEPT ![t] = Return(@, gm_th[t].resp, FALSE)]
            /\ UNCHANGED <<gm_CLIENT, gm_constructed, gm_exists, gm_saved>>
            /\ UNCHANGED notGeminiVars

(***************************************************************************)
(* getPlan (src/getPlan.py): one worker per section in a thread pool, the  *)
(* results collected as the futures complete and returned in section       *)
(* order.  What process_one(i, sections[i]) produces is identified with i. *)
(***************************************************************************)

\* MAX_WORKERS = int(os.getenv("GEMINI_MAX_WORKERS", "6"))
MaxWorkerValues == {1, 2, 6}

SectionIdx == 0..(gp_n - 1)

\* ({"script": "", "title": "", "backgroundImage": ""}, [])
EmptySection == 0 - 1

\* The key taken from the position among the completed futures
ResultKeyByArrival(index, arrival) == arrival

\* results[index] = ..., index being the first component the worker returns
ResultKey(index, arrival) == index

\* results[key] = value
DictSet(d, key, value) == {p \in d : p[1] # key} \cup {<<key, value>>}

\* results.get(key, default)
DictGet(d, key, default) ==
    IF \E p \in d : p[1] = key
    THEN (CHOOSE p \in d : p[1] = key)[2]
    ELSE default

Running == {i \in SectionIdx : gp_fut[i] = "running"}

Pending == {i \in SectionIdx : gp_fut[i] = "pending"}

NoReturn == [vo_sections |-> <<>>, plan |-> <<>>]

PoolInit ==
    /\ gp_n \in 0..MaxSections
    /\ gp_max_workers \in MaxWorkerValues
    /\ gp_fut = [i \in SectionIdx |-> "new"]
    /\ gp_completed = <<>>
    /\ gp_taken = 0
    /\ gp_results = {}
    /\ gp_ret = NoReturn
    /\ gp_pc = "submit"

PoolIdle ==
    /\ gp_n = 0
    /\ gp_max_workers = 0
    /\ gp_fut = <<>>
    /\ gp_completed = <<>>
    /\ gp_taken = 0
    /\ gp_results = {}
    /\ gp_ret = NoReturn
    /\ gp_pc = "idle"

\* executor.submit(process_one, i, sec) for every section
GpSubmit ==
    /\ gp_pc = "submit"
    /\ gp_fut' = [i \in SectionIdx |-> "pending"]
    /\ gp_pc' = "collect"
    /\ UNCHANGED <<gp_n, gp_max_workers, gp_completed, gp_taken, gp_results, gp_ret>>
    /\ UNCHANGED notPoolVars

\* A pool thread takes the oldest queued work item; the pool has at most
\* max_workers threads
GpWorkerStart ==
    \E i \in Pending :
        /\ gp_pc \in {"collect", "shutdown"}
        /\ \A j \in Pending : i <= j
        /\ Cardinality(Running) < gp_max_workers
        /\ gp_fut' = [gp_fut EXCEPT ![i] = "running"]
        /\ UNCHANGED <<gp_n, gp_max_workers, gp_completed, gp_taken, gp_results,
                       gp_ret, gp_pc>>
        /\ UNCHANGED notPoolVars

\* process_one returns (index, section_obj, segments)
GpWorkerDone ==
    \E i \in Running :
        /\ gp_fut' = [gp_fut EXCEPT ![i] = "done"]
        /\ gp_completed' = Append(gp_completed, i)
        /\ UNCHANGED <<gp_n, gp_max_workers, gp_taken, gp_results, gp_ret, gp_pc>>
        /\ UNCHANGED notPoolVars

\* process_one raises (a Gemini call or the parsing of its answer fails)
GpWorkerFail ==
    \E i \in Running :
        /\ gp_fut' = [gp_fut EXCEPT ![i] = "failed"]
        /\ gp_completed' = Append(gp_completed, i)
        /\ UNCHANGED <<gp_n, gp_max_workers, gp_taken, gp_results, gp_ret, gp_pc>>
        /\ UNCHANGED notPoolVars

\* as_completed yields the next completed future; future.result() returns
\* the worker's tuple, stored under its index, or re-raises the worker's
\* exception, which leaves the with block
GpCollect ==
    /\ gp_pc = "collect"
    /\ gp_taken < Len(gp_completed)
    /\ LET index == gp_completed[gp_taken + 1] IN
         IF gp_fut[index] = "failed"
         THEN /\ gp_pc' = "shutdown"
              /\ UNCHANGED <<gp_taken, gp_results>>
         ELSE /\ gp_results' = DictSet(gp_results, ResultKey(index, gp_taken), index)
              /\ gp_taken' = gp_taken + 1
              /\ gp_pc' = gp_pc
    /\ UNCHANGED <<gp_n, gp_max_workers, gp_fut, gp_completed, gp_ret>>
    /\ UNCHANGED notPoolVars

\* Leaving the with block on an exception: shutdown(wait=True) waits for
\* every worker, then the exception propagates out of getPlan
GpRaise ==
    /\ gp_pc = "shutdown"
    /\ \A i \in SectionIdx : gp_fut[i] \in {"done", "failed"}
    /\ gp_pc' = "raised"
    /\ UNCHANGED <<gp_n, gp_max_workers, gp_fut, gp_completed, gp_taken,
                   gp_results, gp_ret>>
    /\ UNCHANGED notPoolVars

\* Every future was yielded: the two lists are built for i in
\* range(len(sections)) and returned
GpBuild ==
    /\ gp_pc = "collect"
    /\ gp_taken = gp_n
    /\ gp_ret' = [vo_sections |-> [k \in 1..gp_n |-> DictGet(gp_results, k - 1, EmptySection)],
                  plan |-> [k \in 1..gp_n |-> DictGet(gp_results, k - 1, EmptySection)]]
    /\ gp_pc' = "returned"
    /\ UNCHANGED <<gp_n, gp_max_workers, gp_fut, gp_completed, gp_taken, gp_results>>
    /\ UNCHANGED notPoolVars

vars == <<combineVars, captionVars, kenVars, avVars, uploadVars,
         planVars,
         geminiVars,
         poolVars>>

\* The timeline combiner on its own
Init == CombineInit /\ CaptionIdle /\ KenIdle /\ AvIdle /\ UploadIdle
        /\ PoolIdle
        /\ GeminiIdle
        /\ PlanIdle

Next ==
    \/ RaiseEmpty
    \/ Bypass
    \/ Probe
    \/ CutPre
    \/ Crossfade
    \/ CutMid
    \/ CutPost
    \/ WriteList
    \/ Concat

Spec == Init /\ [][Next]_vars

\* The caption windower on its own
CaptionSpecInit == CaptionInit /\ CombineIdle /\ KenIdle /\ AvIdle /\ UploadIdle
        /\ PoolIdle
        /\ GeminiIdle
        /\ PlanIdle

CaptionSpecNext ==
    \/ CapNoWords
    \/ CapSplit
    \/ CapSentence
    \/ CapWhile
    \/ CapWord
    \/ CapAdvance
    \/ CapWrite

CaptionSpec == CaptionSpecInit /\ [][CaptionSpecNext]_vars

\* The Ken Burns planners on their own
KenSpecInit == KenInit /\ CombineIdle /\ CaptionIdle /\ AvIdle /\ UploadIdle
        /\ PoolIdle
        /\ GeminiIdle
        /\ PlanIdle

KenSpecNext ==
    \/ CkPlan
    \/ CkSample
    \/ KbePlan
    \/ KbFrame
    \/ KbRenderOk
    \/ CkRenderFail
    \/ KbeRenderFail

KenSpec == KenSpecInit /\ [][KenSpecNext]_vars

\* The audio/video pair combiner on its own
AvSpecInit == AvInit /\ CombineIdle /\ CaptionIdle /\ KenIdle /\ UploadIdle
        /\ PoolIdle
        /\ GeminiIdle
        /\ PlanIdle

AvSpecNext ==
    \/ AvFastPath
    \/ AvProbeFail
    \/ AvInvalid
    \/ AvPlan
    \/ AvRenderOk
    \/ AvRenderFail

AvSpec == AvSpecInit /\ [][AvSpecNext]_vars

\* Total frame count of a list of segments
TotalFrames(segs) == SumSeq([k \in 1..Len(segs) |-> segs[k].num_frames])

UploadSpecInit ==
    UploadInit /\ CombineIdle /\ CaptionIdle /\ KenIdle /\ AvIdle
        /\ PoolIdle
        /\ GeminiIdle
        /\ PlanIdle

UploadSpecNext ==
    \/ UpUploaded
    \/ UpUploadRetry
    \/ UpUploadFail
    \/ UpThumbnail
    \/ UpPollNotFound
    \/ UpPollSucceeded
    \/ UpPollFailed
    \/ UpPollTimeout
    \/ UpPollSleep
    \/ UpKeepUnlisted
    \/ UpPublish

UploadSpec == UploadSpecInit /\ [][UploadSpecNext]_vars

SectionSpecInit ==
    PlanInit /\ CombineIdle /\ CaptionIdle /\ KenIdle /\ AvIdle
        /\ PoolIdle
        /\ GeminiIdle
        /\ UploadIdle

SectionSpecNext ==
    \/ PlanIndex
    \/ PlanShort
    \/ CallCombine
    \/ Bypass
    \/ Probe
    \/ CutPre
    \/ Crossfade
    \/ CutMid
    \/ CutPost
    \/ WriteList
    \/ Concat

SectionSpec == SectionSpecInit /\ [][SectionSpecNext]_vars

GeminiSpecInit ==
    GeminiInit /\ CombineIdle /\ CaptionIdle /\ KenIdle /\ AvIdle
        /\ PoolIdle
        /\ UploadIdle /\ PlanIdle

GeminiSpecNext ==
    \/ GmLookup
    \/ GmRead
    \/ GmCheckClient
    \/ GmConstruct
    \/ GmReturnClient
    \/ GmGenerateText
    \/ GmGenerateEmpty
    \/ GmGenerateRaises
    \/ GmRewrite
    \/ GmOpenWrite
    \/ GmWrite

GeminiSpec == GeminiSpecInit /\ [][GeminiSpecNext]_vars

MainSpecInit ==
    MainInit /\ CombineIdle /\ CaptionIdle /\ KenIdle /\ AvIdle
        /\ PoolIdle
        /\ UploadIdle /\ PlanIdle

MainSpecNext ==
    \/ GmCall
    \/ GmLookup
    \/ GmRead
    \/ GmCheckClient
    \/ GmConstruct
    \/ GmReturnClient
    \/ GmGenerateText
    \/ GmGenerateEmpty
    \/ GmGenerateRaises
    \/ GmRewrite
    \/ GmOpenWrite
    \/ GmWrite

MainSpec == MainSpecInit /\ [][MainSpecNext]_vars

PoolSpecInit ==
    PoolInit /\ CombineIdle /\ CaptionIdle /\ KenIdle /\ AvIdle
        /\ UploadIdle /\ PlanIdle /\ GeminiIdle

PoolSpecNext ==
    \/ GpSubmit
    \/ GpWorkerStart
    \/ GpWorkerDone
    \/ GpWorkerFail
    \/ GpCollect
    \/ GpRaise
    \/ GpBuild

PoolSpec == PoolSpecInit /\ [][PoolSpecNext]_vars

(***************************************************************************)
(* Properties of combine_clips_with_fades                                  *)
(***************************************************************************)
\* The call went through probing and segmentation (not the fast path).
Segmented == nb_frames # <<>>

\* Every clip's frame count is known to the planner (probed or duration-derived).
FramesKnown == \A k \in 0..(NClips - 1) : N_(k) >= 1

\* Every clip's frame count was probed directly.
FramesProbed == \A k \in 1..NClips : nb_frames[k] = video_frames[k]

\* C1: for N >= 2 clips with known positive frame counts and a positive
\* requested fade, the emitted segments total sum(frames) - sum(fades).
C1_TotalIsSumMinusFades ==
    (cc_pc = "done" /\ Segmented /\ FramesProbed
        /\ ~UseOverride(pair_fade_frames_override, NClips))
    => TotalFrames(output) = SumSeq(video_frames) - SumSeq(pair_fade_frames)

\* C2: two clips A, B with frames >= 1 and a fade f (computed or overridden)
\* with 1 <= f <= min(frames(A), frames(B)): the planned timeline has
\* frames(A) + frames(B) - f frames.
C2_TwoClipTotal ==
    (cc_pc = "done" /\ Segmented /\ NClips = 2
        /\ N_(0) >= 1 /\ N_(1) >= 1
        /\ 1 <= F_(0) /\ F_(0) <= Min(N_(0), N_(1)))
    => TotalFrames(output) = N_(0) + N_(1) - F_(0)

C2_Witness ==
    /\ cc_pc = "done" /\ Segmented /\ NClips = 2
    /\ UseOverride(pair_fade_frames_override, NClips)
    /\ N_(0) = 2 /\ N_(1) = 2 /\ F_(0) = 1
    /\ Len(output) = 3

\* Frame ranges of a segment: [lo, hi) of its source clip and, for a
\* transition, [0, b_hi) of the following clip.
RangeOf(seg) ==
    [kind |-> seg.kind, src |-> seg.src, lo |-> seg.start_frame,
     hi |-> seg.end_frame + 1, b_hi |-> seg.end_b_frame + 1]

RangesOf(segs) == [k \in 1..Len(segs) |-> RangeOf(segs[k])]

\* The pass-through range clip[lo, hi), omitted when its length is <= 0.
PassRange(clip, lo, hi) ==
    IF hi - lo <= 0 THEN <<>>
    ELSE <<[kind |-> "cut", src |-> clip, lo |-> lo, hi |-> hi, b_hi |-> 0]>>

\* The transition of pair i: the last f_i frames of clip i against the first
\* f_i frames of clip i+1.
TransRange(i) ==
    <<[kind |-> "xfade", src |-> i, lo |-> N_(i) - F_(i), hi |-> N_(i),
       b_hi |-> F_(i)]>>

\* Transition i followed by the mid-segment of clip i+1 when it is interior.
PairRanges(i) ==
    TransRange(i) \o
    (IF i + 1 < NClips - 1
     THEN PassRange(i + 1, F_(i), N_(i + 1) - F_(i + 1))
     ELSE <<>>)

RECURSIVE PairsFrom(_)
PairsFrom(i) == IF i >= NClips - 1 THEN <<>> ELSE PairRanges(i) \o PairsFrom(i + 1)

ExpectedRanges ==
    PassRange(0, 0, N_(0) - F_(0))
    \o PairsFrom(0)
    \o PassRange(NClips - 1, F_(NClips - 2), N_(NClips - 1))

IsPrefix(s, t) == Len(s) <= Len(t) /\ \A k \in 1..Len(s) : s[k] = t[k]

ScenarioRanges ==
    << [kind |-> "cut",   src |-> 0, lo |-> 0,  hi |-> 90,  b_hi |-> 0],
       [kind |-> "xfade", src |-> 0, lo |-> 90, hi |-> 120, b_hi |-> 30],
       [kind |-> "cut",   src |-> 1, lo |-> 30, hi |-> 60,  b_hi |-> 0],
       [kind |-> "xfade", src |-> 1, lo |-> 60, hi |-> 90,  b_hi |-> 30],
       [kind |-> "cut",   src |-> 2, lo |-> 30, hi |-> 150, b_hi |-> 0] >>

IsScenario ==
    /\ video_frames = ScenarioClips
    /\ fade_ms = 500
    /\ ~UseOverride(pair_fade_frames_override, NClips)

\* C3: the concat list is built in timeline order with exactly the ranges
\* pre clip0[0,n0-f0), per pair the transition (tail f_i of clip i, head f_i
\* of clip i+1) then mid clip j[f_{j-1}, n_j-f_j), post clip_{N-1}[f_{N-2},n);
\* pass-through ranges of length <= 0 are omitted; 120/90/150 frames at
\* fade 0.5 s give fades [30,30], pre [0,90), mid [30,60), post [30,150).
C3_ConcatListRanges ==
    (Segmented /\ FramesKnown) =>
        /\ IsPrefix(RangesOf(segment_paths), ExpectedRanges)
        /\ cc_pc = "done" => RangesOf(output) = ExpectedRanges
        /\ (cc_pc = "done" /\ IsScenario) =>
               /\ pair_fade_frames = <<30, 30>>
               /\ RangesOf(output) = ScenarioRanges

\* C4: every per-pair fade satisfies 1 <= fade_i <= min(frames(i), frames(i+1)),
\* computed or taken from pair_fade_frames_override.
C4_FadeWithinClips ==
    Segmented =>
        \A k \in 1..(NClips - 1) :
            /\ 1 <= pair_fade_frames[k]
            /\ pair_fade_frames[k] <= Min(video_frames[k], video_frames[k + 1])

\* C10: on the fast path (one clip, or fade_seconds <= 0) the output holds
\* the frames of all input clips.
C10_BypassKeepsAllClips ==
    (cc_pc = "done" /\ ~Segmented)
    => TotalFrames(output) = SumSeq(video_frames)

\* The call has returned or raised
Exited == cc_pc \in {"done", "error"}

\* Commands of the runs so far
RunCmds == {runs[k].cmd : k \in 1..Len(runs)}

C14_RenderFailureIsFatal ==
    \A k \in 1..Len(runs) :
        (runs[k].cmd \in {"cut", "xfade"} /\ runs[k].rc # 0)
            => (k = Len(runs) /\ cc_pc = "error" /\ list_path = "none")

\* The crossfade of a three-segment timeline failed after the pre cut
C14_Witness ==
    /\ cc_pc = "error"
    /\ Len(runs) = 2
    /\ runs[1] = [cmd |-> "cut", rc |-> 0]
    /\ runs[2] = [cmd |-> "xfade", rc |-> 1]
    /\ Len(segment_paths) = 1

\* Both probes of clip k failed
ProbesFailed(k) == nb_frames[k + 1] = 0 /\ durations[k + 1] = 0

\* Claim C15: if every probe of some clip fails (frame count and duration
\* both 0), the call ends in a fatal error; it never completes a timeline in
\* which that clip contributes a zero-length segment.
C15_UnprobeableClipIsFatal ==
    (Segmented /\ \E k \in 0..(NClips - 1) : ProbesFailed(k)) => cc_pc # "done"

\* Some computed pass-through length (pre, mid or post, before the clamp) is
\* negative
NegativeLength ==
    \/ N_(0) - F_(0) < 0
    \/ \E j \in 1..(NClips - 2) : N_(j) - F_(j - 1) - F_(j) < 0
    \/ N_(NClips - 1) - F_(NClips - 2) < 0

\* Claim C16: a negative computed pass-through length is a fatal error; the
\* length is never clamped to 0 and the timeline completed.
C16_NegativeLengthIsFatal ==
    (Segmented /\ NegativeLength) => cc_pc # "done"

ClipEnd(c) == c.start + c.duration

\* Index (0-based) of the word a caption clip highlights
WordOf(c) == c.snippet_from + c.local_index

\* C5: for every pair of consecutive emitted caption windows the earlier
\* one's end time equals the later one's start time (no gap, no overlap).
C5_ConsecutiveWindowsTouch ==
    \A k \in 1..(Len(clips) - 1) : ClipEnd(clips[k]) = clips[k + 1].start

\* C6: when at least one word was transcribed, the emitted windows tile
\* [0, total_duration): the first starts at 0, the last ends at total_dur.
C6_WindowsTileTimeline ==
    cap_pc = "done" =>
        /\ clips # <<>>
        /\ clips[1].start = 0
        /\ ClipEnd(clips[Len(clips)]) = total_dur

\* C7: each transcribed word yields exactly one caption window, in word
\* order, and the window advances only once every word of the current
\* window has its snapshot; the number of snapshots equals the number of
\* words (7 words, window 5: five snapshots of words[0:5], two of words[5:7]).
C7_EveryWordHighlighted ==
    /\ \A k \in 1..Len(clips) : WordOf(clips[k]) = k - 1
    /\ (cap_pc = "word" /\ cap_wi >= win_end) => Len(clips) = win_end
    /\ cap_pc = "done" => Len(clips) = Len(words)

\* Word i (0-based) ends a sentence: it contains terminal punctuation or is
\* the final word.
IsSentenceEnd(i) == ends_sentence(words[i + 1].text) \/ i = Len(words) - 1

\* [from, to) is exactly one sentence of the word list
IsSentence(from, to) ==
    /\ 0 <= from /\ from < to /\ to <= Len(words)
    /\ IsSentenceEnd(to - 1)
    /\ \A i \in from..(to - 2) : ~IsSentenceEnd(i)
    /\ (from = 0 \/ IsSentenceEnd(from - 1))

\* The sentences partition the word list
SentencesPartition ==
    LET sb == sentence_boundaries IN
    /\ sb # <<>>
    /\ sb[1][1] = 0
    /\ sb[Len(sb)][2] = Len(words)
    /\ \A k \in 1..Len(sb) : IsSentence(sb[k][1], sb[k][2])
    /\ \A k \in 1..(Len(sb) - 1) : sb[k][2] = sb[k + 1][1]

\* [from, to) is one of the windows that tile the sentence [s, e)
IsWindowOf(from, to, s, e) ==
    /\ s <= from /\ from < to /\ to <= e
    /\ to - from <= window_size
    /\ (from - s) % window_size = 0
    /\ (to = e \/ to - from = window_size)

WindowInOneSentence(from, to) ==
    \E k \in 1..Len(sentence_boundaries) :
        IsWindowOf(from, to, sentence_boundaries[k][1], sentence_boundaries[k][2])

\* C8: every snapshot shows a contiguous run of at most window_size words of
\* one sentence; sentences partition the words and windows partition each
\* sentence, so no window spans two sentences and no word is in two windows.
C8_WindowsWithinSentences ==
    (cap_pc \notin {"idle", "start", "noop"}) =>
        /\ SentencesPartition
        /\ \A k \in 1..Len(clips) :
            LET c == clips[k] IN
            /\ WindowInOneSentence(c.snippet_from, c.snippet_to)
            /\ \A i \in c.snippet_from..(c.snippet_to - 2) : ~IsSentenceEnd(i)
            /\ c.snippet_from <= WordOf(c) /\ WordOf(c) < c.snippet_to
        /\ \A j, k \in 1..Len(clips) :
            LET a == clips[j]
                b == clips[k]
            IN  \/ (a.snippet_from = b.snippet_from /\ a.snippet_to = b.snippet_to)
                \/ a.snippet_to <= b.snippet_from
                \/ b.snippet_to <= a.snippet_from

C8_Witness ==
    /\ cap_pc = "done"
    /\ Len(words) = 6
    /\ Len(sentence_boundaries) = 2
    /\ sentence_boundaries[1] = <<0, 1>>
    /\ Len(clips) = 6
    /\ clips[2].snippet_from = 1 /\ clips[2].snippet_to = 6

\* The word the caption clip c highlights
ClipWord(c) == words[WordOf(c) + 1]

\* Claim C23: for every word list, with overlapping, repeated or
\* beyond-the-end timestamps too, every emitted caption window has
\* 0 <= start < end <= total duration and starts no earlier than the end of
\* the window emitted before it.
C23_WindowsMonotonic ==
    \A i \in 1..Len(clips) :
        /\ 0 <= clips[i].start
        /\ clips[i].start < ClipEnd(clips[i])
        /\ ClipEnd(clips[i]) <= total_dur
        /\ i > 1 => clips[i].start >= ClipEnd(clips[i - 1])

\* The transcription whose third word starts before its second: two windows
\* were emitted and the video written
C23_Witness ==
    /\ cap_pc = "done"
    /\ words = OverlapWords
    /\ cap_clamped
    /\ Len(clips) = 2

\* Claim C24: every emitted caption window ends no later than its
\* highlighted word's transcribed end plus the post-roll, and no later than
\* the total duration, whichever word of the window it highlights.
C24_EndCappedByPostRoll ==
    \A i \in 1..Len(clips) :
        /\ ClipEnd(clips[i]) <= ClipWord(clips[i]).end + CAPTION_POST_ROLL_MS
        /\ ClipEnd(clips[i]) <= total_dur

\* The hand-off the precedence rule gives the word of the hand-off record h:
\* next word of the window; else first word of the next window of the
\* sentence; else first word of the next sentence; else the total duration
PrecedenceHandOff(h) ==
    LET s_end == sentence_boundaries[h.k + 1][2] IN
    IF h.wi < h.win_end - 1
    THEN words[h.wi + 2].start
    ELSE IF h.win_end < s_end
         THEN words[h.win_end + 1].start
         ELSE IF h.k + 1 < Len(sentence_boundaries)
              THEN words[sentence_boundaries[h.k + 2][1] + 1].start
              ELSE total_dur

\* Claim C25: before capping, the hand-off time of the last word of a window
\* is the start of the next window of the same sentence if there is one,
\* else the start of the next sentence if there is one, else the total
\* duration; for any other word it is the next word's transcribed start.
C25_HandOffPrecedence ==
    cap_handoff # NoHandOff => cap_handoff.next_start = PrecedenceHandOff(cap_handoff)

\* The last word of a sentence that is followed by another sentence
C25_Witness ==
    /\ cap_handoff # NoHandOff
    /\ cap_handoff.wi = cap_handoff.win_end - 1
    /\ cap_handoff.win_end = sentence_boundaries[cap_handoff.k + 1][2]
    /\ cap_handoff.k + 1 < Len(sentence_boundaries)
    /\ cap_handoff.next_start = words[cap_handoff.wi + 2].start
    /\ cap_handoff.next_start < total_dur

(***************************************************************************)
(* Properties of the Ken Burns planners                                    *)
(***************************************************************************)
\* C9: at every frame index the crop rectangle implied by the emitted zoom
\* and pan expressions lies inside the scaled source image, for both
\* create_kenburns_with_ffmpeg and ken_burns_effect_ffmpeg.
C9_CropInsideImage ==
    kb_pc = "render" => (CropInside(CropAt(on, 1)) /\ CropInside(CropAt(on, 2)))

\* The same requirement for create_kenburns_with_ffmpeg alone
CkCropInsideImage ==
    (kb_pc = "render" /\ kb_fn = "create_kenburns_with_ffmpeg")
    => (CropInside(CropAt(on, 1)) /\ CropInside(CropAt(on, 2)))

\* Claim C26: in create_kenburns_with_ffmpeg the end-offset loop draws at
\* most 10 samples (at most 9 rejected ones), and when some pan is possible
\* the chosen start and end offsets are at least min_travel apart, whatever
\* the start offset, a start at the centre included.
C26_TravelAtLeastMinimum ==
    /\ tries <= 9
    /\ (/\ kb_fn = "create_kenburns_with_ffmpeg"
        /\ kb_attempts = 1
        /\ max_pan[1] + max_pan[2] > 0)
       => FarEnough(start_off, end_off, max_pan)

\* C12: when the transcription returns zero words the function is a no-op:
\* it returns the input path, opens no clip, writes no file, raises no error.
C12_NoWordsIsNoOp ==
    (words = <<>> /\ cap_pc # "start") =>
        /\ cap_pc = "noop"
        /\ cap_result = "video_path"
        /\ ~cap_opened
        /\ ~cap_written

C12_Witness == words = <<>> /\ cap_pc = "noop" /\ cap_result = "video_path"

\* C17: when a window's computed end time is earlier than its start time
\* the function stops with a fatal error; it neither clamps the end to the
\* start nor drops the window.
C17_NonMonotonicIsFatal == cap_clamped => cap_pc = "error"

\* Claim C19: each Ken Burns function, when its render fails, retries
\* exactly once (with the pan disabled); only the failure of that second
\* attempt propagates, and there are never more than two attempts.
C19_RetryOnceThenPropagate ==
    /\ kb_attempts <= 2
    /\ kb_pc = "error" => kb_attempts = 2

(***************************************************************************)
(* Properties of combine_two_clips_with_fades_av                           *)
(***************************************************************************)
\* C11: the audio crossfade lasts as long as the video cross-dissolve and
\* begins at the same timeline offset, the probed duration of clip A minus
\* the fade, also when A's audio stream is shorter or longer than its video.
C11_AudioFadeMatchesVideo ==
    (av_pc = "done" /\ av_filter.kind = "xfade") =>
        /\ av_filter.audio.duration = av_filter.video.duration
        /\ av_filter.video.offset =
               ProbedDuration(av_clips[1]) - av_filter.video.duration
        /\ av_filter.audio.offset = av_filter.video.offset

(***************************************************************************)
(* Properties of publish_simple / publish_short                            *)
(***************************************************************************)

\* The video is uploaded unlisted, and a request for "public" follows only
\* a poll that saw processingStatus "succeeded" and no licensedContent
PublicOnlyWhenCleared ==
    /\ up_privacy # "none" /\ up_public = 0 => up_privacy = "unlisted"
    /\ up_public > 0 =>
          /\ up_item.status = "succeeded"
          /\ up_item.licensed # "True"

\* Claim C20, as stated: the video is uploaded unlisted and made public only
\* after a poll saw "succeeded" with no claim; if a claim is detected,
\* processing fails, the video is not found, or polling exceeds the timeout,
\* no request to make the video public is ever issued.
C20_NoPublicPastTimeout ==
    /\ PublicOnlyWhenCleared
    /\ (\/ up_item.licensed = "True"
        \/ up_item.status = "failed"
        \/ up_exit = "not_found"
        \/ up_elapsed > Timeout) => up_public = 0

\* Claim C20, amended: as above, with "polling exceeds the timeout" read as
\* the call ending in its timed-out exit (a poll taken after the timeout
\* that sees a status other than "succeeded" and "failed").
C20_PublicOnlyWhenCleared ==
    /\ PublicOnlyWhenCleared
    /\ (\/ up_item.licensed = "True"
        \/ up_item.status = "failed"
        \/ up_exit \in {"claimed", "processing_failed", "not_found", "timed_out"})
            => up_public = 0

\* After some waiting, processing succeeded without a claim and the video
\* was made public
C20_Witness ==
    /\ up_pc = "exit"
    /\ up_exit = "published"
    /\ up_privacy = "public"
    /\ up_public = 1
    /\ up_elapsed > 0
    /\ up_item = [status |-> "succeeded", licensed |-> "False"]

(***************************************************************************)
(* Properties of the section pipelines (index.main, makeShort)             *)
(***************************************************************************)

\* Output frame at which the j-th segment of segs begins
SegStart(segs, j) == TotalFrames(SubSeq(segs, 1, j - 1))

\* The section's video was assembled from clips whose frame counts were all
\* probed
SectionDone == cc_pc = "done" /\ (Segmented => FramesProbed)

\* Claim C27: in index.main, for every item k >= 1 of a section, image k does
\* not become the sole visible image of the combined section video before
\* its planned boundary frame boundaries[k]: the crossfades never move a cut
\* earlier than the narration start it was aligned to.
C27_NoEarlyCut ==
    (SectionDone /\ pl_fn = "index.main") =>
        \A j \in 1..Len(output) :
            (output[j].kind = "cut" /\ output[j].src >= 1)
                => SegStart(output, j) >= pl_boundaries[output[j].src + 1]

\* Claim C28: in makeShort, with the backward fade-compensated frame counts,
\* the crossfade from item i to item i+1 starts exactly at the planned
\* boundary boundaries[i+1] (n_i - f_i = s_i, f_i the fade the combiner
\* uses), and the combined video is as long as the final boundary.
C28_CrossfadeAtBoundary ==
    (SectionDone /\ pl_fn = "makeShort") =>
        /\ \A j \in 1..Len(output) :
              output[j].kind = "xfade" =>
                  /\ N_(output[j].src) - F_(output[j].src)
                        = pl_s_spans[output[j].src + 1]
                  /\ SegStart(output, j) = pl_boundaries[output[j].src + 2]
        /\ TotalFrames(output) = pl_boundaries[Len(pl_boundaries)]

(***************************************************************************)
(* Properties of getPlan                                                   *)
(***************************************************************************)

\* Claim C21: whatever the order in which the workers complete, getPlan
\* returns vo_sections and plan of len(sections) entries whose entry i is
\* what the worker of section i produced; and if any worker failed getPlan
\* raises instead of returning.
C21_SectionOrderKept ==
    /\ gp_pc = "returned" =>
          /\ gp_ret.vo_sections = [k \in 1..gp_n |-> k - 1]
          /\ gp_ret.plan = [k \in 1..gp_n |-> k - 1]
          /\ \A i \in SectionIdx : gp_fut[i] = "done"
    /\ (gp_pc = "raised") = (gp_pc \in {"returned", "raised"}
                              /\ \E i \in SectionIdx : gp_fut[i] = "failed")

\* getPlan returned three sections whose workers completed last-first
C21_Witness ==
    /\ gp_pc = "returned"
    /\ gp_completed = <<2, 0, 1>>
    /\ gp_ret.plan = <<0, 1, 2>>

(***************************************************************************)
(* Properties of the Gemini helpers                                        *)
(***************************************************************************)

\* Claim C22: with several workers calling ask_gemini concurrently, a cache
\* lookup of key k that hits returns a complete response text that some
\* call saved for k; a read overlapping a write of the same key is a miss,
\* never a hit with partial or mixed content.
C22_HitIsASavedResponse ==
    \A t \in Threads :
        (gm_th[t].fn = "ask_gemini" /\ gm_th[t].hit)
            => gm_th[t].result \in gm_saved[CacheKey(gm_th[t].fn)]

\* Claim C29: at most one Gemini client is ever constructed per process, and
\* all callers receive that same instance, for every interleaving of
\* concurrent ask_gemini calls.
C29_OneClient ==
    /\ gm_constructed <= 1
    /\ \A t, u \in Threads :
          (gm_th[t].client # 0 /\ gm_th[u].client # 0)
              => gm_th[t].client = gm_th[u].client

\* Claim C30: every entry of the response cache holds a non-empty response
\* text: an empty or failed generation is never saved.
C30_NoEmptyEntry ==
    \A k \in GeminiFns :
        /\ EmptyText \notin gm_saved[k]
        /\ gm_exists[k] => JsonResponse(gm_files[k]) # EmptyText

==========================================================================
